---- MODULE Spec2Model ----
(***************************************************************************)
(* yarn: Lock, Semaphore and Condition of src/src/primitives.cpp as a      *)
(* state machine.  Every access to a shared word (lock_value, value,       *)
(* waiter_count, waiters), every clock_gettime and every futex call is one *)
(* step of the calling thread; threads interleave freely between steps.    *)
(***************************************************************************)
EXTENDS Integers, Naturals, Sequences, FiniteSets, TLC

\* ------------------------------------------------------------------ bounds
NumThreads == 2
MaxRounds == 1
MaxTimeout == 1
MaxSpinTime == 1
MaxTicks == 3
MaxCalls == 1
MaxWaits == 2
MaxInitialValue == 1
MaxFlag == 2

\* ------------------------------------------------------- program constants
USecPerSec == 1000000
NSecPerSec == 1000000000
NSecPerUSec == 1000
Int32Max == 2147483647

\* The monotonic clock is counted in nanoseconds.  It starts two microseconds
\* before a full second so that tv_sec changes during a run, and advances in
\* half-microsecond ticks so that time_diff_ns really truncates.
TickNs == NSecPerUSec \div 2
ClockOrigin == NSecPerSec - 2 * NSecPerUSec
MaxClock == ClockOrigin + MaxTicks * TickNs

VARIABLES
    clock,              \* CLOCK_MONOTONIC, in ns
    lock_value,         \* Lock::lock_value
    lock_waiter_count,  \* Lock::waiter_count
    lock_spin_time,     \* Lock::spin_time
    value,              \* Semaphore::value
    sem_waiter_count,   \* Semaphore::waiter_count
    sem_spin_time,      \* Semaphore::spin_time
    waiters,            \* Condition::waiters
    counter,            \* the shared counter of tests/lock_test.cpp
    pc,                 \* per thread: the statement it is at
    site,               \* per thread: the call site tryLock/tryTake returns to
    caller,             \* per thread: who called Lock::lock/unlock
    start_time,         \* per thread: local start_time (timespec)
    now,                \* per thread: local now (timespec)
    timeout,            \* per thread: the argument timeout_ns
    temp,               \* per thread: local temp of Semaphore::tryTake
    current,            \* per thread: local current of Condition::wait
    reg,                \* per thread: the value read by counter++
    try_ret,            \* per thread: value returned by tryLock/tryTake
    deadline,           \* per thread: kernel timer of a timed futex wait
    h_owner,            \* history: threads between acquire and unlock
    h_call_time,        \* history: clock at entry of the timed call
    h_held,             \* history: lock was held by others since call entry
    h_winc,             \* history: waiter_count increments minus decrements
    h_rounds,           \* history: lock/increment/unlock rounds done
    h_calls,            \* history: calls of Semaphore/Condition operations made
    h_gives_begun,      \* history: give() calls that did their increment
    h_takes_done,       \* history: successful take/tryTake completions
    h_notified,         \* history: notify seen after entering wait
    h_initial,          \* history: the Semaphore's initial_value
    program,            \* which primitive the threads of this run exercise
    h_woken,            \* history: the notify call that released the thread
    monitor_lock,       \* Monitor::monitor_lock
    lock_waiters,       \* Monitor::lock_waiters
    mon_waiters,        \* Monitor::waiters, the list of LockNode
    flag,               \* the data the predicates of the Monitor's clients read
    predicate,          \* per thread: the argument predicate of wait_for
    it                  \* per thread: the node the iterator it stopped at

shared == << clock, lock_value, lock_waiter_count, lock_spin_time, value,
             sem_waiter_count, sem_spin_time, waiters, counter >>
locals == << pc, site, caller, start_time, now, timeout, temp, current, reg,
             try_ret, deadline >>
monvars == << monitor_lock, lock_waiters, mon_waiters, flag, predicate, it >>
hist == << h_owner, h_call_time, h_held, h_winc, h_rounds, h_calls, h_gives_begun,
           h_takes_done, h_notified, h_initial, program, monvars, h_woken >>
vars == << shared, locals, hist >>

\* The threads of the run: NumThreads of them, and one more in the programs
\* that need a third party (waiters and a notifier).
BaseThreads == 1 .. NumThreads
MoreThreads == 1 .. NumThreads + 1
Threads == IF program \in {"notify", "monitor"} THEN MoreThreads ELSE BaseThreads

\* The words are uint32_t.  No state of the model comes near 2^32, so sums are
\* written without the wrap; a decrement of 0 would show as -1.

\* ---------------------------------------------------------------- helpers
Min(a, b) == IF a <= b THEN a ELSE b

\* C integer division and remainder truncate toward zero.
CDiv(a, b) == IF a >= 0 THEN a \div b ELSE -((-a) \div b)
CMod(a, b) == a - b * CDiv(a, b)

ZeroTs == [tv_sec |-> 0, tv_nsec |-> 0]

\* clock_gettime( CLOCK_MONOTONIC, &ts )
clock_gettime(c) == [tv_sec |-> c \div NSecPerSec, tv_nsec |-> c % NSecPerSec]

TsNs(ts) == ts.tv_sec * NSecPerSec + ts.tv_nsec

\* Faulty variant of time_diff_ns: the microseconds are rounded up.
time_diff_round_up(n, b) ==
    USecPerSec * (n.tv_sec - b.tv_sec - 1)
        + ((NSecPerSec + n.tv_nsec - b.tv_nsec + NSecPerUSec - 1) \div NSecPerUSec)

\* Faulty variant of time_diff_ns: the two arguments are taken in the wrong
\* order, so the elapsed time is never positive.
time_diff_swapped(n, b) ==
    USecPerSec * (b.tv_sec - n.tv_sec - 1)
        + ((NSecPerSec + b.tv_nsec - n.tv_nsec) \div NSecPerUSec)

\* static long time_diff_ns( struct timespec *now, struct timespec *before ):
\* despite its name the result is in microseconds, rounded down.
time_diff_ns(n, b) ==
    USecPerSec * (n.tv_sec - b.tv_sec - 1)
        + ((NSecPerSec + n.tv_nsec - b.tv_nsec) \div NSecPerUSec)

\* The timespec handed to the timed futex wait:
\*     time_diff -= timeout_ns;
\*     now.tv_sec = time_diff / 1000000;
\*     now.tv_nsec = ( time_diff % 1000000 ) * 1000;
SleepTimespec(time_diff, timeout_ns) ==
    LET rem == time_diff - timeout_ns
    IN  [tv_sec |-> CDiv(rem, USecPerSec),
         tv_nsec |-> CMod(rem, USecPerSec) * NSecPerUSec]

\* The kernel refuses (EINVAL) a timespec with a negative field or with
\* tv_nsec of a second or more; the futex call then returns at once.
TimespecValid(ts) ==
    ts.tv_sec >= 0 /\ ts.tv_nsec >= 0 /\ ts.tv_nsec < NSecPerSec

\* --------------------------------------------------------- the futex queue
\* A thread parked in FUTEX_WAIT is at one of these statements.
ParkedPcs(word) ==
    CASE word = "lock_value" -> {"l_parked", "lt_parked"}
      [] word = "value" -> {"t_parked", "tt_parked"}
      [] word = "waiters" -> {"cw_parked"}
      [] word = "monitor_lock" -> {"ml_parked"}
      [] word = "node.lock" -> {"wf_parked"}

AllParkedPcs ==
    ParkedPcs("lock_value") \cup ParkedPcs("value") \cup ParkedPcs("waiters")
        \cup ParkedPcs("monitor_lock") \cup ParkedPcs("node.lock")

ParkedOn(word) == {t \in Threads : pc[t] \in ParkedPcs(word)}

\* The statement after the futex call a parked thread is in.
AfterWait(p) ==
    CASE p = "l_parked" -> "l_dec"
      [] p = "lt_parked" -> "lt_dec"
      [] p = "t_parked" -> "t_dec"
      [] p = "tt_parked" -> "tt_dec"
      [] p = "cw_parked" -> "cw_dec"
      [] p = "ml_parked" -> "ml_dec"
      [] p = "wf_parked" -> "wf_erase"
      [] OTHER -> p

\* simple_futex( &word, FUTEX_WAKE, n ): the sets of threads one call may wake,
\* n of the parked ones or all of them when fewer are parked.
WakeSets(word, n) ==
    {W \in SUBSET ParkedOn(word) : Cardinality(W) = Min(n, Cardinality(ParkedOn(word)))}

\* pc after thread t moved to statement p and the threads of W were woken.
Woken(t, p, W) ==
    [u \in Threads |-> IF u = t THEN p
                       ELSE IF u \in W THEN AfterWait(pc[u]) ELSE pc[u]]

\* ------------------------------------------------------------------- time
Timed(t) == site[t] \in {"lockt_first", "lockt_spin", "taket_first", "taket_spin"}
Sampled(t) == site[t] \in {"lock_spin", "lockt_spin", "take_spin", "taket_spin"}

\* The elapsed time (in microseconds) thread t is waiting for.
Threshold(t) ==
    CASE site[t] = "lock_spin" -> lock_spin_time
      [] site[t] = "take_spin" -> sem_spin_time
      [] OTHER -> timeout[t]

Measuring(t) ==
    \/ Sampled(t) /\ clock < TsNs(start_time[t]) + Threshold(t) * NSecPerUSec
    \/ pc[t] \in {"lt_parked", "tt_parked"} /\ clock < deadline[t]

\* Time passes.  The clock is only advanced while some thread is inside a call
\* that reads it, and past MaxClock only until the threads that already took
\* their start_time have seen their spin time or timeout elapse and the timers
\* of the parked ones have run out.  A timed futex wait whose timer has run
\* out returns (ETIMEDOUT).
Tick ==
    /\ \E t \in Threads : site[t] \notin {"none", "try", "trytake"}
    /\ clock < MaxClock \/ \E t \in Threads : Measuring(t)
    /\ clock' = clock + TickNs
    /\ pc' = [t \in Threads |->
                IF pc[t] \in {"lt_parked", "tt_parked"} /\ deadline[t] <= clock'
                THEN AfterWait(pc[t]) ELSE pc[t]]
    /\ UNCHANGED << lock_value, lock_waiter_count, lock_spin_time, value,
                    sem_waiter_count, sem_spin_time, waiters, counter >>
    /\ UNCHANGED << site, caller, start_time, now, timeout, temp, current, reg,
                    try_ret, deadline >>
    /\ UNCHANGED hist

\* A parked thread may also return without a wake (EINTR, spurious wake-up).
FutexInterrupt(t) ==
    /\ pc[t] \in AllParkedPcs
    /\ pc' = [pc EXCEPT ![t] = AfterWait(pc[t])]
    /\ UNCHANGED shared
    /\ UNCHANGED << site, caller, start_time, now, timeout, temp, current, reg,
                    try_ret, deadline >>
    /\ UNCHANGED hist

\* ------------------------------------------------------------------- Init
\* What is remembered of the call that released a thread from its wait on the
\* Condition: the operation, and how many threads were parked when it was made.
NotWoken == [op |-> "none", parked |-> 0]

\* An iterator of the Monitor's list that points at no node.
NoNode == [owner |-> 0, call |-> 0, predicate |-> 0, lock |-> 0]

LocalsInit ==
    /\ pc = [t \in Threads |-> "idle"]
    /\ site = [t \in Threads |-> "none"]
    /\ caller = [t \in Threads |-> "client"]
    /\ start_time = [t \in Threads |-> ZeroTs]
    /\ now = [t \in Threads |-> ZeroTs]
    /\ timeout = [t \in Threads |-> 0]
    /\ temp = [t \in Threads |-> 0]
    /\ current = [t \in Threads |-> 0]
    /\ reg = [t \in Threads |-> 0]
    /\ try_ret = [t \in Threads |-> FALSE]
    /\ deadline = [t \in Threads |-> 0]

HistInit ==
    /\ h_owner = {}
    /\ h_call_time = [t \in Threads |-> 0]
    /\ h_held = [t \in Threads |-> FALSE]
    /\ h_winc = [t \in Threads |-> 0]
    /\ h_rounds = [t \in Threads |-> 0]
    /\ h_calls = [t \in Threads |-> 0]
    /\ h_gives_begun = 0
    /\ h_takes_done = 0
    /\ h_notified = [t \in Threads |-> FALSE]
    /\ h_initial = value
    /\ h_woken = [t \in Threads |-> NotWoken]

\* Lock lock( spin ); Semaphore sem( initial_value, spin ); Condition cond;
Init ==
    /\ program \in {"lock", "semaphore", "condition", "notify", "monitor"}
    /\ clock = ClockOrigin
    /\ lock_value = 0
    /\ lock_waiter_count = 0
    /\ lock_spin_time \in 0 .. MaxSpinTime
    /\ value \in 0 .. MaxInitialValue
    /\ sem_waiter_count = 0
    /\ sem_spin_time \in 0 .. MaxSpinTime
    /\ waiters = 0
    /\ counter = 0
    /\ LocalsInit
    /\ HistInit
    /\ monitor_lock = 0
    /\ lock_waiters = 0
    /\ mon_waiters = << >>
    /\ flag = 0
    /\ predicate = [t \in Threads |-> 0]
    /\ it = [t \in Threads |-> NoNode]

\* Only the Lock is used: the Semaphore is left as constructed by default.
LockInit ==
    /\ Init
    /\ program = "lock"
    /\ value = 0
    /\ sem_spin_time = 0

semvars == << value, sem_waiter_count, sem_spin_time >>
semhist == << h_gives_begun, h_takes_done, h_initial, program, monvars, h_woken >>

\* ------------------------------------------------------------ Lock::tryLock
\* tryLock is called by the client (site "try"), at the top of lock() and
\* lock(timeout) (sites "lock_first", "lockt_first") and in their spin loops
\* (sites "lock_spin", "lockt_spin").  The statement a false result leads to:
TryLockFalsePc(t) ==
    CASE site[t] = "try" -> "tl_ret"
      [] site[t] = "lock_first" -> "l_start"
      [] site[t] = "lock_spin" -> "l_now"
      [] site[t] = "lockt_first" -> "lt_start"
      [] site[t] = "lockt_spin" -> "lt_now"

\* and a true one: if( tryLock() ) return;
TryLockTruePc(t) == IF site[t] = "try" THEN "tl_ret" ELSE "l_ret"

\* return lock_value == 0 && __sync_bool_compare_and_swap( &lock_value, 0, 1 );
\* first the plain read ...
TryLockRead(t) ==
    /\ pc[t] = "tl_read"
    /\ IF lock_value = 0
       THEN /\ pc' = [pc EXCEPT ![t] = "tl_cas"]
            /\ UNCHANGED try_ret
       ELSE /\ pc' = [pc EXCEPT ![t] = TryLockFalsePc(t)]
            /\ try_ret' = [try_ret EXCEPT ![t] = FALSE]
    /\ UNCHANGED << shared, hist >>
    /\ UNCHANGED << site, caller, start_time, now, timeout, temp, current, reg, deadline >>

\* Faulty variant of TryLockCAS: a plain store of 1 without the compare.
TryLockCASNoCompare(t) ==
    /\ pc[t] = "tl_cas"
    /\ lock_value' = 1
    /\ try_ret' = [try_ret EXCEPT ![t] = TRUE]
    /\ pc' = [pc EXCEPT ![t] = TryLockTruePc(t)]
    /\ h_owner' = h_owner \cup {t}
    /\ UNCHANGED << clock, lock_waiter_count, lock_spin_time, semvars, waiters, counter >>
    /\ UNCHANGED << site, caller, start_time, now, timeout, temp, current, reg, deadline >>
    /\ UNCHANGED << h_call_time, h_held, h_winc, h_rounds, h_calls, h_notified, semhist >>

\* Faulty variant of TryLockCAS: the swap is done but its result is dropped
\* and true is returned.
TryLockCASIgnoreResult(t) ==
    /\ pc[t] = "tl_cas"
    /\ lock_value' = 1
    /\ try_ret' = [try_ret EXCEPT ![t] = TRUE]
    /\ pc' = [pc EXCEPT ![t] = TryLockTruePc(t)]
    /\ h_owner' = IF lock_value = 0 THEN h_owner \cup {t} ELSE h_owner
    /\ UNCHANGED << clock, lock_waiter_count, lock_spin_time, semvars, waiters, counter >>
    /\ UNCHANGED << site, caller, start_time, now, timeout, temp, current, reg, deadline >>
    /\ UNCHANGED << h_call_time, h_held, h_winc, h_rounds, h_calls, h_notified, semhist >>

\* ... then the compare-and-swap.
TryLockCAS(t) ==
    /\ pc[t] = "tl_cas"
    /\ IF lock_value = 0
       THEN /\ lock_value' = 1
            /\ try_ret' = [try_ret EXCEPT ![t] = TRUE]
            /\ pc' = [pc EXCEPT ![t] = TryLockTruePc(t)]
            /\ h_owner' = h_owner \cup {t}
       ELSE /\ try_ret' = [try_ret EXCEPT ![t] = FALSE]
            /\ pc' = [pc EXCEPT ![t] = TryLockFalsePc(t)]
            /\ UNCHANGED << lock_value, h_owner >>
    /\ UNCHANGED << clock, lock_waiter_count, lock_spin_time, semvars, waiters, counter >>
    /\ UNCHANGED << site, caller, start_time, now, timeout, temp, current, reg, deadline >>
    /\ UNCHANGED << h_call_time, h_held, h_winc, h_rounds, h_calls, h_notified, semhist >>

\* The client's tryLock() returns: true with the lock, or false.
TryLockReturn(t) ==
    /\ pc[t] = "tl_ret"
    /\ pc' = [pc EXCEPT ![t] = IF try_ret[t] THEN "cs" ELSE "idle"]
    /\ site' = [site EXCEPT ![t] = "none"]
    /\ try_ret' = [try_ret EXCEPT ![t] = FALSE]
    /\ UNCHANGED << shared, hist >>
    /\ UNCHANGED << caller, start_time, now, timeout, temp, current, reg, deadline >>

\* Where Lock::lock returns to: the client's critical section, or the end of
\* Condition::wait.
LockReturnPc(t) == IF caller[t] = "wait" THEN "cw_ret" ELSE "cs"

\* lock() or lock(timeout) returns with the lock.
LockReturn(t) ==
    /\ pc[t] = "l_ret"
    /\ pc' = [pc EXCEPT ![t] = LockReturnPc(t)]
    /\ site' = [site EXCEPT ![t] = "none"]
    /\ start_time' = [start_time EXCEPT ![t] = ZeroTs]
    /\ timeout' = [timeout EXCEPT ![t] = 0]
    /\ try_ret' = [try_ret EXCEPT ![t] = FALSE]
    /\ h_call_time' = [h_call_time EXCEPT ![t] = 0]
    /\ h_held' = [h_held EXCEPT ![t] = FALSE]
    /\ UNCHANGED shared
    /\ UNCHANGED << caller, now, temp, current, reg, deadline >>
    /\ UNCHANGED << h_owner, h_winc, h_rounds, h_calls, h_notified, semhist >>

\* --------------------------------------------------------------- Lock::lock
\* clock_gettime( CLOCK_MONOTONIC, &start_time );
LockStart(t) ==
    /\ pc[t] = "l_start"
    /\ start_time' = [start_time EXCEPT ![t] = clock_gettime(clock)]
    /\ site' = [site EXCEPT ![t] = "lock_spin"]
    /\ pc' = [pc EXCEPT ![t] = "tl_read"]
    /\ UNCHANGED << shared, hist >>
    /\ UNCHANGED << caller, now, timeout, temp, current, reg, try_ret, deadline >>

\* clock_gettime( CLOCK_MONOTONIC, &now );
\* if( time_diff_ns( &now, &start_time) >= spin_time ) break;
LockNow(t) ==
    /\ pc[t] = "l_now"
    /\ pc' = [pc EXCEPT ![t] =
                IF time_diff_ns(clock_gettime(clock), start_time[t]) >= lock_spin_time
                THEN "l_inc" ELSE "tl_read"]
    /\ UNCHANGED << shared, hist >>
    /\ UNCHANGED << site, caller, start_time, now, timeout, temp, current, reg, try_ret, deadline >>

\* __sync_add_and_fetch( &waiter_count, 1 );
LockInc(t) ==
    /\ pc[t] = "l_inc"
    /\ lock_waiter_count' = lock_waiter_count + 1
    /\ h_winc' = [h_winc EXCEPT ![t] = @ + 1]
    /\ pc' = [pc EXCEPT ![t] = "l_wait"]
    /\ UNCHANGED << clock, lock_value, lock_spin_time, semvars, waiters, counter >>
    /\ UNCHANGED << site, caller, start_time, now, timeout, temp, current, reg, try_ret, deadline >>
    /\ UNCHANGED << h_owner, h_call_time, h_held, h_rounds, h_calls, h_notified, semhist >>

\* simple_futex( &lock_value, FUTEX_WAIT, 1 ): parks only if the word is 1.
LockWait(t) ==
    /\ pc[t] = "l_wait"
    /\ pc' = [pc EXCEPT ![t] = IF lock_value = 1 THEN "l_parked" ELSE "l_dec"]
    /\ UNCHANGED << shared, hist >>
    /\ UNCHANGED << site, caller, start_time, now, timeout, temp, current, reg, try_ret, deadline >>

\* __sync_sub_and_fetch( &waiter_count, 1 ); then the loop starts over.
LockDec(t) ==
    /\ pc[t] = "l_dec"
    /\ lock_waiter_count' = lock_waiter_count - 1
    /\ h_winc' = [h_winc EXCEPT ![t] = @ - 1]
    /\ pc' = [pc EXCEPT ![t] = "tl_read"]
    /\ UNCHANGED << clock, lock_value, lock_spin_time, semvars, waiters, counter >>
    /\ UNCHANGED << site, caller, start_time, now, timeout, temp, current, reg, try_ret, deadline >>
    /\ UNCHANGED << h_owner, h_call_time, h_held, h_rounds, h_calls, h_notified, semhist >>

\* ----------------------------------------------------- Lock::lock(timeout)
\* clock_gettime( CLOCK_MONOTONIC, &start_time );
LocktStart(t) ==
    /\ pc[t] = "lt_start"
    /\ start_time' = [start_time EXCEPT ![t] = clock_gettime(clock)]
    /\ site' = [site EXCEPT ![t] = "lockt_spin"]
    /\ pc' = [pc EXCEPT ![t] = "tl_read"]
    /\ UNCHANGED << shared, hist >>
    /\ UNCHANGED << caller, now, timeout, temp, current, reg, try_ret, deadline >>

\* if( time_diff >= timeout_ns ) throw TimeoutExpiredException( ... );
Expired(time_diff, timeout_ns) == time_diff >= timeout_ns

\* The statements at which a TimeoutExpiredException is in flight.
ThrowPcs == {"lt_throw", "lt_throw_late", "tt_throw", "tt_throw_late"}

\* clock_gettime( CLOCK_MONOTONIC, &now );
\* if( time_diff_ns( &now, &start_time) >= std::min( spin_time, timeout_ns ) ) break;
\* and after the break: throw if the timeout has expired, else store the
\* sleep time back to now.  (The variable now is recorded only while its
\* value is still to be read, that is from here to the futex call.)
LocktNow(t) ==
    /\ pc[t] = "lt_now"
    /\ LET n == clock_gettime(clock)
           time_diff == time_diff_ns(n, start_time[t])
       IN  IF time_diff >= Min(lock_spin_time, timeout[t])
           THEN IF Expired(time_diff, timeout[t])
                THEN /\ pc' = [pc EXCEPT ![t] = "lt_throw"]
                     /\ UNCHANGED now
                ELSE /\ pc' = [pc EXCEPT ![t] = "lt_inc"]
                     /\ now' = [now EXCEPT ![t] = SleepTimespec(time_diff, timeout[t])]
           ELSE /\ pc' = [pc EXCEPT ![t] = "tl_read"]
                /\ UNCHANGED now
    /\ UNCHANGED << shared, hist >>
    /\ UNCHANGED << site, caller, start_time, timeout, temp, current, reg, try_ret, deadline >>

\* __sync_add_and_fetch( &waiter_count, 1 );
LocktInc(t) ==
    /\ pc[t] = "lt_inc"
    /\ lock_waiter_count' = lock_waiter_count + 1
    /\ h_winc' = [h_winc EXCEPT ![t] = @ + 1]
    /\ pc' = [pc EXCEPT ![t] = "lt_wait"]
    /\ UNCHANGED << clock, lock_value, lock_spin_time, semvars, waiters, counter >>
    /\ UNCHANGED << site, caller, start_time, now, timeout, temp, current, reg, try_ret, deadline >>
    /\ UNCHANGED << h_owner, h_call_time, h_held, h_rounds, h_calls, h_notified, semhist >>

\* simple_futex( &word, FUTEX_WAIT, expected, &now ) as the kernel does it:
\* EINVAL for an invalid timespec, EAGAIN when the word differs, else the
\* caller parks with a timer of the relative time given.  The result is the
\* statement the caller is at next and its timer.
FutexWaitTimed(word, expected, ts, parked, after) ==
    IF ~TimespecValid(ts) THEN [pc |-> after, deadline |-> 0]
    ELSE IF word # expected THEN [pc |-> after, deadline |-> 0]
    ELSE [pc |-> parked, deadline |-> clock + TsNs(ts)]

\* simple_futex( &lock_value, FUTEX_WAIT, 1, &now );
LocktWait(t) ==
    /\ pc[t] = "lt_wait"
    /\ LET r == FutexWaitTimed(lock_value, 1, now[t], "lt_parked", "lt_dec")
       IN  /\ pc' = [pc EXCEPT ![t] = r.pc]
           /\ deadline' = [deadline EXCEPT ![t] = r.deadline]
    /\ now' = [now EXCEPT ![t] = ZeroTs]
    /\ UNCHANGED << shared, hist >>
    /\ UNCHANGED << site, caller, start_time, timeout, temp, current, reg, try_ret >>

\* Faulty variant of LocktDec: the decrement of waiter_count is left out.
LocktDecMissing(t) ==
    /\ pc[t] = "lt_dec"
    /\ pc' = [pc EXCEPT ![t] = "lt_recheck"]
    /\ deadline' = [deadline EXCEPT ![t] = 0]
    /\ UNCHANGED << shared, hist >>
    /\ UNCHANGED << site, caller, start_time, now, timeout, temp, current, reg, try_ret >>

\* __sync_sub_and_fetch( &waiter_count, 1 );
LocktDec(t) ==
    /\ pc[t] = "lt_dec"
    /\ lock_waiter_count' = lock_waiter_count - 1
    /\ h_winc' = [h_winc EXCEPT ![t] = @ - 1]
    /\ pc' = [pc EXCEPT ![t] = "lt_recheck"]
    /\ deadline' = [deadline EXCEPT ![t] = 0]
    /\ UNCHANGED << clock, lock_value, lock_spin_time, semvars, waiters, counter >>
    /\ UNCHANGED << site, caller, start_time, now, timeout, temp, current, reg, try_ret >>
    /\ UNCHANGED << h_owner, h_call_time, h_held, h_rounds, h_calls, h_notified, semhist >>

\* clock_gettime( CLOCK_MONOTONIC, &now );
\* if( time_diff_ns( &now, &start_time ) >= timeout_ns ) throw ...
LocktRecheck(t) ==
    /\ pc[t] = "lt_recheck"
    /\ LET n == clock_gettime(clock)
       IN  pc' = [pc EXCEPT ![t] =
                    IF Expired(time_diff_ns(n, start_time[t]), timeout[t])
                    THEN "lt_throw_late" ELSE "tl_read"]
    /\ UNCHANGED << shared, hist >>
    /\ UNCHANGED << site, caller, start_time, now, timeout, temp, current, reg, try_ret, deadline >>

\* The TimeoutExpiredException, thrown before the futex wait ("lt_throw") or
\* after it ("lt_throw_late"), reaches the client, which goes on.
LocktCatch(t) ==
    /\ pc[t] \in {"lt_throw", "lt_throw_late"}
    /\ pc' = [pc EXCEPT ![t] = "idle"]
    /\ site' = [site EXCEPT ![t] = "none"]
    /\ start_time' = [start_time EXCEPT ![t] = ZeroTs]
    /\ timeout' = [timeout EXCEPT ![t] = 0]
    /\ h_call_time' = [h_call_time EXCEPT ![t] = 0]
    /\ h_held' = [h_held EXCEPT ![t] = FALSE]
    /\ UNCHANGED shared
    /\ UNCHANGED << caller, now, temp, current, reg, try_ret, deadline >>
    /\ UNCHANGED << h_owner, h_winc, h_rounds, h_calls, h_notified, semhist >>

\* ------------------------------------------------------------- Lock::unlock
\* Where Lock::unlock returns to: the client, or Condition::wait.
UnlockReturnPc(t) == IF caller[t] = "wait" THEN "cw_wait" ELSE "idle"

\* Faulty variant of UnlockStore: the word is decremented, not set to 0.
UnlockStoreDecrement(t) ==
    /\ pc[t] = "u_store"
    /\ lock_value' = lock_value - 1
    /\ h_owner' = h_owner \ {t}
    /\ h_held' = [u \in Threads |-> FALSE]
    /\ pc' = [pc EXCEPT ![t] = "u_check"]
    /\ UNCHANGED << clock, lock_waiter_count, lock_spin_time, semvars, waiters, counter >>
    /\ UNCHANGED << site, caller, start_time, now, timeout, temp, current, reg, try_ret, deadline >>
    /\ UNCHANGED << h_call_time, h_winc, h_rounds, h_calls, h_notified, semhist >>

\* lock_value = 0;
UnlockStore(t) ==
    /\ pc[t] = "u_store"
    /\ lock_value' = 0
    /\ h_owner' = h_owner \ {t}
    /\ h_held' = [u \in Threads |-> FALSE]
    /\ pc' = [pc EXCEPT ![t] = "u_check"]
    /\ UNCHANGED << clock, lock_waiter_count, lock_spin_time, semvars, waiters, counter >>
    /\ UNCHANGED << site, caller, start_time, now, timeout, temp, current, reg, try_ret, deadline >>
    /\ UNCHANGED << h_call_time, h_winc, h_rounds, h_calls, h_notified, semhist >>

\* if( waiter_count )
UnlockCheck(t) ==
    /\ pc[t] = "u_check"
    /\ pc' = [pc EXCEPT ![t] = IF lock_waiter_count # 0 THEN "u_wake" ELSE UnlockReturnPc(t)]
    /\ UNCHANGED << shared, hist >>
    /\ UNCHANGED << site, caller, start_time, now, timeout, temp, current, reg, try_ret, deadline >>

\* lock_value and waiter_count are plain uint32_t members, written and read
\* here without a barrier while other threads access them: the store of line
\* 110 and the load of line 111 go to different words, so the compiler or the
\* store buffer of the processor may let the load come first.  The load has
\* read 0 while the store is still on its way ...
UnlockCheckEarly(t) ==
    /\ pc[t] = "u_store"
    /\ lock_waiter_count = 0
    /\ pc' = [pc EXCEPT ![t] = "u_drain"]
    /\ UNCHANGED << shared, hist >>
    /\ UNCHANGED << site, caller, start_time, now, timeout, temp, current, reg, try_ret, deadline >>

\* ... and the store becomes visible after it; no wake follows.
UnlockDrain(t) ==
    /\ pc[t] = "u_drain"
    /\ lock_value' = 0
    /\ h_owner' = h_owner \ {t}
    /\ h_held' = [u \in Threads |-> FALSE]
    /\ pc' = [pc EXCEPT ![t] = UnlockReturnPc(t)]
    /\ UNCHANGED << clock, lock_waiter_count, lock_spin_time, semvars, waiters, counter >>
    /\ UNCHANGED << site, caller, start_time, now, timeout, temp, current, reg, try_ret, deadline >>
    /\ UNCHANGED << h_call_time, h_winc, h_rounds, h_calls, h_notified, semhist >>

\* simple_futex( &lock_value, FUTEX_WAKE, 1 );
UnlockWake(t) ==
    /\ pc[t] = "u_wake"
    /\ \E W \in WakeSets("lock_value", 1) : pc' = Woken(t, UnlockReturnPc(t), W)
    /\ UNCHANGED << shared, hist >>
    /\ UNCHANGED << site, caller, start_time, now, timeout, temp, current, reg, try_ret, deadline >>

\* ------------------------------------------------- clients of the Lock
\* The threads of tests/lock_test.cpp: each does MaxRounds rounds of acquire,
\* counter++, unlock, acquiring by lock(), lock(timeout) or tryLock() and
\* trying again when tryLock() returns false or lock(timeout) throws.

\* if( !lock.tryLock() ) ...
CallTryLock(t) ==
    /\ pc[t] = "idle"
    /\ h_rounds[t] < MaxRounds
    /\ pc' = [pc EXCEPT ![t] = "tl_read"]
    /\ site' = [site EXCEPT ![t] = "try"]
    /\ caller' = [caller EXCEPT ![t] = "client"]
    /\ UNCHANGED shared
    /\ UNCHANGED << start_time, now, timeout, temp, current, reg, try_ret, deadline >>
    /\ UNCHANGED << h_owner, h_call_time, h_held, h_winc, h_rounds, h_calls, h_notified, semhist >>

\* lock.lock();
CallLock(t) ==
    /\ pc[t] = "idle"
    /\ h_rounds[t] < MaxRounds
    /\ clock < MaxClock
    /\ pc' = [pc EXCEPT ![t] = "tl_read"]
    /\ site' = [site EXCEPT ![t] = "lock_first"]
    /\ caller' = [caller EXCEPT ![t] = "client"]
    /\ UNCHANGED shared
    /\ UNCHANGED << start_time, now, timeout, temp, current, reg, try_ret, deadline >>
    /\ UNCHANGED << h_owner, h_call_time, h_held, h_winc, h_rounds, h_calls, h_notified, semhist >>

\* lock.lock( timeout );
CallLockTimed(t) ==
    /\ pc[t] = "idle"
    /\ h_rounds[t] < MaxRounds
    /\ clock < MaxClock
    /\ \E to \in 0 .. MaxTimeout : timeout' = [timeout EXCEPT ![t] = to]
    /\ pc' = [pc EXCEPT ![t] = "tl_read"]
    /\ site' = [site EXCEPT ![t] = "lockt_first"]
    /\ caller' = [caller EXCEPT ![t] = "client"]
    /\ h_call_time' = [h_call_time EXCEPT ![t] = clock]
    /\ h_held' = [h_held EXCEPT ![t] = (lock_value = 1)]
    /\ UNCHANGED shared
    /\ UNCHANGED << start_time, now, temp, current, reg, try_ret, deadline >>
    /\ UNCHANGED << h_owner, h_winc, h_rounds, h_calls, h_notified, semhist >>

\* counter++ is a read ...
CsRead(t) ==
    /\ pc[t] = "cs"
    /\ reg' = [reg EXCEPT ![t] = counter]
    /\ pc' = [pc EXCEPT ![t] = "cs_write"]
    /\ UNCHANGED << shared, hist >>
    /\ UNCHANGED << site, caller, start_time, now, timeout, temp, current, try_ret, deadline >>

\* ... and a write; lock.unlock() follows.
CsWrite(t) ==
    /\ pc[t] = "cs_write"
    /\ counter' = reg[t] + 1
    /\ reg' = [reg EXCEPT ![t] = 0]
    /\ h_rounds' = [h_rounds EXCEPT ![t] = @ + 1]
    /\ pc' = [pc EXCEPT ![t] = "u_store"]
    /\ UNCHANGED << clock, lock_value, lock_waiter_count, lock_spin_time, semvars, waiters >>
    /\ UNCHANGED << site, caller, start_time, now, timeout, temp, current, try_ret, deadline >>
    /\ UNCHANGED << h_owner, h_call_time, h_held, h_winc, h_calls, h_notified, semhist >>

\* One step of Lock::lock, lock(timeout), tryLock or unlock by thread t.
LockStep(t) ==
    \/ TryLockRead(t) \/ TryLockCAS(t) \/ TryLockReturn(t) \/ LockReturn(t)
    \/ LockStart(t) \/ LockNow(t) \/ LockInc(t) \/ LockWait(t) \/ LockDec(t)
    \/ LocktStart(t) \/ LocktNow(t) \/ LocktInc(t) \/ LocktWait(t)
    \/ LocktDec(t) \/ LocktRecheck(t) \/ LocktCatch(t)
    \/ UnlockStore(t) \/ UnlockCheck(t) \/ UnlockWake(t)
    \/ UnlockCheckEarly(t) \/ UnlockDrain(t)

LockClient(t) ==
    \/ CallTryLock(t) \/ CallLock(t) \/ CallLockTimed(t)
    \/ CsRead(t) \/ CsWrite(t)

LockNext ==
    \/ Tick
    \/ \E t \in Threads : LockStep(t) \/ LockClient(t) \/ FutexInterrupt(t)

LockSpec == LockInit /\ [][LockNext]_vars

\* lock.unlock(); by a thread that is not inside the lock's critical section,
\* whether the lock is free or owned by another thread; at most MaxCalls
\* times for each thread.
CallUnlock(t) ==
    /\ pc[t] = "idle"
    /\ h_calls[t] < MaxCalls
    /\ pc' = [pc EXCEPT ![t] = "u_store"]
    /\ caller' = [caller EXCEPT ![t] = "client"]
    /\ h_calls' = [h_calls EXCEPT ![t] = @ + 1]
    /\ UNCHANGED shared
    /\ UNCHANGED << site, start_time, now, timeout, temp, current, reg, try_ret, deadline >>
    /\ UNCHANGED << h_owner, h_call_time, h_held, h_winc, h_rounds, h_notified, semhist >>

\* The Lock with clients that also unlock what they do not own.
AnyUnlockNext ==
    \/ LockNext
    \/ \E t \in Threads : CallUnlock(t)

AnyUnlockSpec == LockInit /\ [][AnyUnlockNext]_vars

\* -------------------------------------------------------- Semaphore::tryTake
\* tryTake is called by the client (site "trytake"), at the top of take() and
\* take(timeout) (sites "take_first", "taket_first") and in their spin loops
\* (sites "take_spin", "taket_spin").  The statement a false result leads to:
TryTakeFalsePc(t) ==
    CASE site[t] = "trytake" -> "k_ret"
      [] site[t] = "take_first" -> "t_start"
      [] site[t] = "take_spin" -> "t_now"
      [] site[t] = "taket_first" -> "tt_start"
      [] site[t] = "taket_spin" -> "tt_now"

\* and a true one: if( tryTake() ) return;
TryTakeTruePc(t) == IF site[t] = "trytake" THEN "k_ret" ELSE "t_ret"

\* Faulty variant of TryTakeRead: the test temp > 0 is left out.
TryTakeReadNoZeroCheck(t) ==
    /\ pc[t] = "k_read"
    /\ temp' = [temp EXCEPT ![t] = value]
    /\ pc' = [pc EXCEPT ![t] = "k_cas"]
    /\ UNCHANGED << shared, hist >>
    /\ UNCHANGED << site, caller, start_time, now, timeout, current, reg, try_ret, deadline >>

\* uint32_t temp = value; if( temp > 0 ) ... else return false;
TryTakeRead(t) ==
    /\ pc[t] = "k_read"
    /\ IF value > 0
       THEN /\ temp' = [temp EXCEPT ![t] = value]
            /\ pc' = [pc EXCEPT ![t] = "k_cas"]
            /\ UNCHANGED try_ret
       ELSE /\ pc' = [pc EXCEPT ![t] = TryTakeFalsePc(t)]
            /\ try_ret' = [try_ret EXCEPT ![t] = FALSE]
            /\ UNCHANGED temp
    /\ UNCHANGED << shared, hist >>
    /\ UNCHANGED << site, caller, start_time, now, timeout, current, reg, deadline >>

\* Faulty variant of TryTakeCAS: a plain store of temp - 1 without the compare.
TryTakeCASNoCompare(t) ==
    /\ pc[t] = "k_cas"
    /\ value' = temp[t] - 1
    /\ try_ret' = [try_ret EXCEPT ![t] = TRUE]
    /\ pc' = [pc EXCEPT ![t] = TryTakeTruePc(t)]
    /\ temp' = [temp EXCEPT ![t] = 0]
    /\ UNCHANGED << clock, lock_value, lock_waiter_count, lock_spin_time,
                    sem_waiter_count, sem_spin_time, waiters, counter >>
    /\ UNCHANGED << site, caller, start_time, now, timeout, current, reg, deadline >>
    /\ UNCHANGED hist

\* Faulty variant of TryTakeCAS: an atomic decrement of whatever the count
\* is now, in place of the compare-and-swap against the value read.
TryTakeCASFetchSub(t) ==
    /\ pc[t] = "k_cas"
    /\ value' = value - 1
    /\ try_ret' = [try_ret EXCEPT ![t] = TRUE]
    /\ pc' = [pc EXCEPT ![t] = TryTakeTruePc(t)]
    /\ temp' = [temp EXCEPT ![t] = 0]
    /\ UNCHANGED << clock, lock_value, lock_waiter_count, lock_spin_time,
                    sem_waiter_count, sem_spin_time, waiters, counter >>
    /\ UNCHANGED << site, caller, start_time, now, timeout, current, reg, deadline >>
    /\ UNCHANGED hist

\* if( __sync_bool_compare_and_swap( &value, temp, temp - 1 ) ) return true;
\* and when the swap fails the while( true ) loop reads value again.
TryTakeCAS(t) ==
    /\ pc[t] = "k_cas"
    /\ IF value = temp[t]
       THEN /\ value' = temp[t] - 1
            /\ try_ret' = [try_ret EXCEPT ![t] = TRUE]
            /\ pc' = [pc EXCEPT ![t] = TryTakeTruePc(t)]
       ELSE /\ pc' = [pc EXCEPT ![t] = "k_read"]
            /\ UNCHANGED << value, try_ret >>
    /\ temp' = [temp EXCEPT ![t] = 0]
    /\ UNCHANGED << clock, lock_value, lock_waiter_count, lock_spin_time,
                    sem_waiter_count, sem_spin_time, waiters, counter >>
    /\ UNCHANGED << site, caller, start_time, now, timeout, current, reg, deadline >>
    /\ UNCHANGED hist

\* The client's tryTake() returns; with true a take is complete.
TryTakeReturn(t) ==
    /\ pc[t] = "k_ret"
    /\ pc' = [pc EXCEPT ![t] = "idle"]
    /\ site' = [site EXCEPT ![t] = "none"]
    /\ try_ret' = [try_ret EXCEPT ![t] = FALSE]
    /\ h_takes_done' = IF try_ret[t] THEN h_takes_done + 1 ELSE h_takes_done
    /\ UNCHANGED shared
    /\ UNCHANGED << caller, start_time, now, timeout, temp, current, reg, deadline >>
    /\ UNCHANGED << h_owner, h_call_time, h_held, h_winc, h_rounds, h_calls, h_gives_begun,
                    h_notified, h_initial, program, monvars, h_woken >>

\* take() or take(timeout) returns: a take is complete.
TakeReturn(t) ==
    /\ pc[t] = "t_ret"
    /\ pc' = [pc EXCEPT ![t] = "idle"]
    /\ site' = [site EXCEPT ![t] = "none"]
    /\ start_time' = [start_time EXCEPT ![t] = ZeroTs]
    /\ timeout' = [timeout EXCEPT ![t] = 0]
    /\ try_ret' = [try_ret EXCEPT ![t] = FALSE]
    /\ h_call_time' = [h_call_time EXCEPT ![t] = 0]
    /\ h_takes_done' = h_takes_done + 1
    /\ UNCHANGED shared
    /\ UNCHANGED << caller, now, temp, current, reg, deadline >>
    /\ UNCHANGED << h_owner, h_held, h_winc, h_rounds, h_calls, h_gives_begun,
                    h_notified, h_initial, program, monvars, h_woken >>

\* ----------------------------------------------------------- Semaphore::take
\* clock_gettime( CLOCK_MONOTONIC, &start_time );
TakeStart(t) ==
    /\ pc[t] = "t_start"
    /\ start_time' = [start_time EXCEPT ![t] = clock_gettime(clock)]
    /\ site' = [site EXCEPT ![t] = "take_spin"]
    /\ pc' = [pc EXCEPT ![t] = "k_read"]
    /\ UNCHANGED << shared, hist >>
    /\ UNCHANGED << caller, now, timeout, temp, current, reg, try_ret, deadline >>

\* clock_gettime( CLOCK_MONOTONIC, &now );
\* if( time_diff_ns( &now, &start_time) >= spin_time ) break;
TakeNow(t) ==
    /\ pc[t] = "t_now"
    /\ pc' = [pc EXCEPT ![t] =
                IF time_diff_ns(clock_gettime(clock), start_time[t]) >= sem_spin_time
                THEN "t_inc" ELSE "k_read"]
    /\ UNCHANGED << shared, hist >>
    /\ UNCHANGED << site, caller, start_time, now, timeout, temp, current, reg, try_ret, deadline >>

\* __sync_add_and_fetch( &waiter_count, 1 );
TakeInc(t) ==
    /\ pc[t] = "t_inc"
    /\ sem_waiter_count' = sem_waiter_count + 1
    /\ h_winc' = [h_winc EXCEPT ![t] = @ + 1]
    /\ pc' = [pc EXCEPT ![t] = "t_wait"]
    /\ UNCHANGED << clock, lock_value, lock_waiter_count, lock_spin_time, value,
                    sem_spin_time, waiters, counter >>
    /\ UNCHANGED << site, caller, start_time, now, timeout, temp, current, reg, try_ret, deadline >>
    /\ UNCHANGED << h_owner, h_call_time, h_held, h_rounds, h_calls, h_notified, semhist >>

\* simple_futex(&value, FUTEX_WAIT, 0 ): parks only if the count is 0.
TakeWait(t) ==
    /\ pc[t] = "t_wait"
    /\ pc' = [pc EXCEPT ![t] = IF value = 0 THEN "t_parked" ELSE "t_dec"]
    /\ UNCHANGED << shared, hist >>
    /\ UNCHANGED << site, caller, start_time, now, timeout, temp, current, reg, try_ret, deadline >>

\* __sync_sub_and_fetch( &waiter_count, 1 ); then the loop starts over.
TakeDec(t) ==
    /\ pc[t] = "t_dec"
    /\ sem_waiter_count' = sem_waiter_count - 1
    /\ h_winc' = [h_winc EXCEPT ![t] = @ - 1]
    /\ pc' = [pc EXCEPT ![t] = "k_read"]
    /\ UNCHANGED << clock, lock_value, lock_waiter_count, lock_spin_time, value,
                    sem_spin_time, waiters, counter >>
    /\ UNCHANGED << site, caller, start_time, now, timeout, temp, current, reg, try_ret, deadline >>
    /\ UNCHANGED << h_owner, h_call_time, h_held, h_rounds, h_calls, h_notified, semhist >>

\* -------------------------------------------------- Semaphore::take(timeout)
\* clock_gettime( CLOCK_MONOTONIC, &start_time );
TaketStart(t) ==
    /\ pc[t] = "tt_start"
    /\ start_time' = [start_time EXCEPT ![t] = clock_gettime(clock)]
    /\ site' = [site EXCEPT ![t] = "taket_spin"]
    /\ pc' = [pc EXCEPT ![t] = "k_read"]
    /\ UNCHANGED << shared, hist >>
    /\ UNCHANGED << caller, now, timeout, temp, current, reg, try_ret, deadline >>

\* clock_gettime( CLOCK_MONOTONIC, &now );
\* if( time_diff_ns( &now, &start_time) >= std::min( spin_time, timeout_ns ) ) break;
\* and after the break: throw if the timeout has expired, else store the
\* sleep time back to now.
TaketNow(t) ==
    /\ pc[t] = "tt_now"
    /\ LET n == clock_gettime(clock)
           time_diff == time_diff_ns(n, start_time[t])
       IN  IF time_diff >= Min(sem_spin_time, timeout[t])
           THEN IF Expired(time_diff, timeout[t])
                THEN /\ pc' = [pc EXCEPT ![t] = "tt_throw"]
                     /\ UNCHANGED now
                ELSE /\ pc' = [pc EXCEPT ![t] = "tt_inc"]
                     /\ now' = [now EXCEPT ![t] = SleepTimespec(time_diff, timeout[t])]
           ELSE /\ pc' = [pc EXCEPT ![t] = "k_read"]
                /\ UNCHANGED now
    /\ UNCHANGED << shared, hist >>
    /\ UNCHANGED << site, caller, start_time, timeout, temp, current, reg, try_ret, deadline >>

\* __sync_add_and_fetch( &waiter_count, 1 );
TaketInc(t) ==
    /\ pc[t] = "tt_inc"
    /\ sem_waiter_count' = sem_waiter_count + 1
    /\ h_winc' = [h_winc EXCEPT ![t] = @ + 1]
    /\ pc' = [pc EXCEPT ![t] = "tt_wait"]
    /\ UNCHANGED << clock, lock_value, lock_waiter_count, lock_spin_time, value,
                    sem_spin_time, waiters, counter >>
    /\ UNCHANGED << site, caller, start_time, now, timeout, temp, current, reg, try_ret, deadline >>
    /\ UNCHANGED << h_owner, h_call_time, h_held, h_rounds, h_calls, h_notified, semhist >>

\* simple_futex( &value, FUTEX_WAIT, 0, &now );
TaketWait(t) ==
    /\ pc[t] = "tt_wait"
    /\ LET r == FutexWaitTimed(value, 0, now[t], "tt_parked", "tt_dec")
       IN  /\ pc' = [pc EXCEPT ![t] = r.pc]
           /\ deadline' = [deadline EXCEPT ![t] = r.deadline]
    /\ now' = [now EXCEPT ![t] = ZeroTs]
    /\ UNCHANGED << shared, hist >>
    /\ UNCHANGED << site, caller, start_time, timeout, temp, current, reg, try_ret >>

\* __sync_sub_and_fetch( &waiter_count, 1 );
TaketDec(t) ==
    /\ pc[t] = "tt_dec"
    /\ sem_waiter_count' = sem_waiter_count - 1
    /\ h_winc' = [h_winc EXCEPT ![t] = @ - 1]
    /\ pc' = [pc EXCEPT ![t] = "tt_recheck"]
    /\ deadline' = [deadline EXCEPT ![t] = 0]
    /\ UNCHANGED << clock, lock_value, lock_waiter_count, lock_spin_time, value,
                    sem_spin_time, waiters, counter >>
    /\ UNCHANGED << site, caller, start_time, now, timeout, temp, current, reg, try_ret >>
    /\ UNCHANGED << h_owner, h_call_time, h_held, h_rounds, h_calls, h_notified, semhist >>

\* clock_gettime( CLOCK_MONOTONIC, &now );
\* if( time_diff_ns( &now, &start_time ) >= timeout_ns ) throw ...
TaketRecheck(t) ==
    /\ pc[t] = "tt_recheck"
    /\ LET n == clock_gettime(clock)
       IN  pc' = [pc EXCEPT ![t] =
                    IF Expired(time_diff_ns(n, start_time[t]), timeout[t])
                    THEN "tt_throw_late" ELSE "k_read"]
    /\ UNCHANGED << shared, hist >>
    /\ UNCHANGED << site, caller, start_time, now, timeout, temp, current, reg, try_ret, deadline >>

\* The TimeoutExpiredException, thrown before the futex wait ("tt_throw") or
\* after it ("tt_throw_late"), reaches the client, which goes on.
TaketCatch(t) ==
    /\ pc[t] \in {"tt_throw", "tt_throw_late"}
    /\ pc' = [pc EXCEPT ![t] = "idle"]
    /\ site' = [site EXCEPT ![t] = "none"]
    /\ start_time' = [start_time EXCEPT ![t] = ZeroTs]
    /\ timeout' = [timeout EXCEPT ![t] = 0]
    /\ h_call_time' = [h_call_time EXCEPT ![t] = 0]
    /\ UNCHANGED shared
    /\ UNCHANGED << caller, now, temp, current, reg, try_ret, deadline >>
    /\ UNCHANGED << h_owner, h_held, h_winc, h_rounds, h_calls, h_notified, semhist >>

\* ------------------------------------------------------------ Semaphore::give
\* __sync_fetch_and_add( &value, 1 );
GiveAdd(t) ==
    /\ pc[t] = "g_add"
    /\ value' = value + 1
    /\ h_gives_begun' = h_gives_begun + 1
    /\ pc' = [pc EXCEPT ![t] = "g_check"]
    /\ UNCHANGED << clock, lock_value, lock_waiter_count, lock_spin_time,
                    sem_waiter_count, sem_spin_time, waiters, counter >>
    /\ UNCHANGED << site, caller, start_time, now, timeout, temp, current, reg, try_ret, deadline >>
    /\ UNCHANGED << h_owner, h_call_time, h_held, h_winc, h_rounds, h_calls,
                    h_takes_done, h_notified, h_initial, program, monvars, h_woken >>

\* Faulty variant of GiveCheck: give() returns without looking for waiters.
GiveCheckNoWake(t) ==
    /\ pc[t] = "g_check"
    /\ pc' = [pc EXCEPT ![t] = "idle"]
    /\ UNCHANGED << shared, hist >>
    /\ UNCHANGED << site, caller, start_time, now, timeout, temp, current, reg, try_ret, deadline >>

\* if( waiter_count ) ...; without waiters give() returns here.
GiveCheck(t) ==
    /\ pc[t] = "g_check"
    /\ pc' = [pc EXCEPT ![t] = IF sem_waiter_count # 0 THEN "g_wake" ELSE "idle"]
    /\ UNCHANGED << shared, hist >>
    /\ UNCHANGED << site, caller, start_time, now, timeout, temp, current, reg, try_ret, deadline >>

\* simple_futex( &value, FUTEX_WAKE, 1 ); and give() returns.
GiveWake(t) ==
    /\ pc[t] = "g_wake"
    /\ \E W \in WakeSets("value", 1) : pc' = Woken(t, "idle", W)
    /\ UNCHANGED << shared, hist >>
    /\ UNCHANGED << site, caller, start_time, now, timeout, temp, current, reg, try_ret, deadline >>

\* The give() calls that have returned: those that did their increment and
\* are no longer inside give().
GivesDone == h_gives_begun - Cardinality({t \in Threads : pc[t] \in {"g_check", "g_wake"}})

\* --------------------------------------------------- clients of the Semaphore
\* Each thread makes at most MaxCalls calls, in any order, of give(),
\* tryTake(), take() and take(timeout).

\* sem.give();
CallGive(t) ==
    /\ pc[t] = "idle"
    /\ h_calls[t] < MaxCalls
    /\ pc' = [pc EXCEPT ![t] = "g_add"]
    /\ h_calls' = [h_calls EXCEPT ![t] = @ + 1]
    /\ UNCHANGED shared
    /\ UNCHANGED << site, caller, start_time, now, timeout, temp, current, reg, try_ret, deadline >>
    /\ UNCHANGED << h_owner, h_call_time, h_held, h_winc, h_rounds, h_notified, semhist >>

\* if( sem.tryTake() ) ...
CallTryTake(t) ==
    /\ pc[t] = "idle"
    /\ h_calls[t] < MaxCalls
    /\ pc' = [pc EXCEPT ![t] = "k_read"]
    /\ site' = [site EXCEPT ![t] = "trytake"]
    /\ h_calls' = [h_calls EXCEPT ![t] = @ + 1]
    /\ UNCHANGED shared
    /\ UNCHANGED << caller, start_time, now, timeout, temp, current, reg, try_ret, deadline >>
    /\ UNCHANGED << h_owner, h_call_time, h_held, h_winc, h_rounds, h_notified, semhist >>

\* sem.take();
CallTake(t) ==
    /\ pc[t] = "idle"
    /\ h_calls[t] < MaxCalls
    /\ clock < MaxClock
    /\ pc' = [pc EXCEPT ![t] = "k_read"]
    /\ site' = [site EXCEPT ![t] = "take_first"]
    /\ h_calls' = [h_calls EXCEPT ![t] = @ + 1]
    /\ UNCHANGED shared
    /\ UNCHANGED << caller, start_time, now, timeout, temp, current, reg, try_ret, deadline >>
    /\ UNCHANGED << h_owner, h_call_time, h_held, h_winc, h_rounds, h_notified, semhist >>

\* sem.take( timeout );
CallTakeTimed(t) ==
    /\ pc[t] = "idle"
    /\ h_calls[t] < MaxCalls
    /\ clock < MaxClock
    /\ \E to \in 0 .. MaxTimeout : timeout' = [timeout EXCEPT ![t] = to]
    /\ pc' = [pc EXCEPT ![t] = "k_read"]
    /\ site' = [site EXCEPT ![t] = "taket_first"]
    /\ h_call_time' = [h_call_time EXCEPT ![t] = clock]
    /\ h_calls' = [h_calls EXCEPT ![t] = @ + 1]
    /\ UNCHANGED shared
    /\ UNCHANGED << caller, start_time, now, temp, current, reg, try_ret, deadline >>
    /\ UNCHANGED << h_owner, h_held, h_winc, h_rounds, h_notified, semhist >>

\* One step of Semaphore::take, take(timeout), tryTake or give by thread t.
SemStep(t) ==
    \/ TryTakeRead(t) \/ TryTakeCAS(t) \/ TryTakeReturn(t) \/ TakeReturn(t)
    \/ TakeStart(t) \/ TakeNow(t) \/ TakeInc(t) \/ TakeWait(t) \/ TakeDec(t)
    \/ TaketStart(t) \/ TaketNow(t) \/ TaketInc(t) \/ TaketWait(t)
    \/ TaketDec(t) \/ TaketRecheck(t) \/ TaketCatch(t)
    \/ GiveAdd(t) \/ GiveCheck(t) \/ GiveWake(t)

SemClient(t) ==
    \/ CallGive(t) \/ CallTryTake(t) \/ CallTake(t) \/ CallTakeTimed(t)

\* Only the Semaphore is used.
SemInit ==
    /\ Init
    /\ program = "semaphore"
    /\ lock_spin_time = 0

SemNext ==
    \/ Tick
    \/ \E t \in Threads : SemStep(t) \/ SemClient(t) \/ FutexInterrupt(t)

SemSpec == SemInit /\ [][SemNext]_vars

\* ----------------------------------------------------------- Condition::wait
\* The threads that have entered wait( lock ), incremented the counter and
\* released the lock, and are not yet back from the futex call.
InWait == {t \in Threads :
             \/ caller[t] = "wait" /\ pc[t] \in {"u_check", "u_wake"}
             \/ pc[t] \in {"cw_wait", "cw_parked"}}

\* Faulty variant of CondWaitInc: lock.unlock() is left out of wait().
CondWaitIncNoUnlock(t) ==
    /\ pc[t] = "cw_inc"
    /\ waiters' = waiters + 1
    /\ current' = [current EXCEPT ![t] = waiters + 1]
    /\ caller' = [caller EXCEPT ![t] = "wait"]
    /\ pc' = [pc EXCEPT ![t] = "cw_wait"]
    /\ UNCHANGED << clock, lock_value, lock_waiter_count, lock_spin_time, semvars, counter >>
    /\ UNCHANGED << site, start_time, now, timeout, temp, reg, try_ret, deadline >>
    /\ UNCHANGED hist

\* uint32_t current = __sync_add_and_fetch( &waiters, 1 ); lock.unlock() is next.
CondWaitInc(t) ==
    /\ pc[t] = "cw_inc"
    /\ waiters' = waiters + 1
    /\ current' = [current EXCEPT ![t] = waiters + 1]
    /\ caller' = [caller EXCEPT ![t] = "wait"]
    /\ pc' = [pc EXCEPT ![t] = "u_store"]
    /\ UNCHANGED << clock, lock_value, lock_waiter_count, lock_spin_time, semvars, counter >>
    /\ UNCHANGED << site, start_time, now, timeout, temp, reg, try_ret, deadline >>
    /\ UNCHANGED hist

\* simple_futex( &waiters, FUTEX_WAIT, current ): parks only if the word still
\* holds the value recorded.
CondWaitFutex(t) ==
    /\ pc[t] = "cw_wait"
    /\ pc' = [pc EXCEPT ![t] = IF waiters = current[t] THEN "cw_parked" ELSE "cw_dec"]
    /\ UNCHANGED << shared, hist >>
    /\ UNCHANGED << site, caller, start_time, now, timeout, temp, current, reg, try_ret, deadline >>

\* __sync_sub_and_fetch( &waiters, 1 ); lock.lock() is next.
CondWaitDec(t) ==
    /\ pc[t] = "cw_dec"
    /\ waiters' = waiters - 1
    /\ current' = [current EXCEPT ![t] = 0]
    /\ site' = [site EXCEPT ![t] = "lock_first"]
    /\ pc' = [pc EXCEPT ![t] = "tl_read"]
    /\ UNCHANGED << clock, lock_value, lock_waiter_count, lock_spin_time, semvars, counter >>
    /\ UNCHANGED << caller, start_time, now, timeout, temp, reg, try_ret, deadline >>
    /\ UNCHANGED hist

\* wait( lock ) returns to the client, which holds the lock again.
CondWaitReturn(t) ==
    /\ pc[t] = "cw_ret"
    /\ pc' = [pc EXCEPT ![t] = "cs"]
    /\ caller' = [caller EXCEPT ![t] = "client"]
    /\ h_notified' = [h_notified EXCEPT ![t] = FALSE]
    /\ h_woken' = [h_woken EXCEPT ![t] = NotWoken]
    /\ UNCHANGED shared
    /\ UNCHANGED << site, start_time, now, timeout, temp, current, reg, try_ret, deadline >>
    /\ UNCHANGED << h_owner, h_call_time, h_held, h_winc, h_rounds, h_calls,
                    h_gives_begun, h_takes_done, h_initial, program, monvars >>

\* --------------------------------------- Condition::notify and notify_all
\* The history after a wake call of operation op released the threads of W.
WokenBy(op, W) ==
    [u \in Threads |->
        IF u \in W THEN [op |-> op, parked |-> Cardinality(ParkedOn("waiters"))]
        ELSE h_woken[u]]

\* Faulty variant of CondNotify: the wake call asks for INT32_MAX threads.
CondNotifyWakesAll(t) ==
    /\ pc[t] = "cs"
    /\ \E W \in WakeSets("waiters", Int32Max) :
          /\ pc' = Woken(t, "cs", W)
          /\ h_woken' = WokenBy("notify", W)
    /\ h_notified' = [u \in Threads |->
                        h_notified[u] \/ (u \in InWait /\ Cardinality(InWait) = 1)]
    /\ UNCHANGED shared
    /\ UNCHANGED << site, caller, start_time, now, timeout, temp, current, reg, try_ret, deadline >>
    /\ UNCHANGED << h_owner, h_call_time, h_held, h_winc, h_rounds, h_calls,
                    h_gives_begun, h_takes_done, h_initial, program, monvars >>

\* Faulty variant of CondNotifyAll: the wake call asks for one thread only.
CondNotifyAllWakesOne(t) ==
    /\ pc[t] = "cs"
    /\ \E W \in WakeSets("waiters", 1) :
          /\ pc' = Woken(t, "cs", W)
          /\ h_woken' = WokenBy("notify_all", W)
    /\ h_notified' = [u \in Threads |-> h_notified[u] \/ u \in InWait]
    /\ UNCHANGED shared
    /\ UNCHANGED << site, caller, start_time, now, timeout, temp, current, reg, try_ret, deadline >>
    /\ UNCHANGED << h_owner, h_call_time, h_held, h_winc, h_rounds, h_calls,
                    h_gives_begun, h_takes_done, h_initial, program, monvars >>

\* simple_futex( &waiters, FUTEX_WAKE, 1 ), called with the lock held.  The
\* history marks the waiter the call is for when there is exactly one.
CondNotify(t) ==
    /\ pc[t] = "cs"
    /\ \E W \in WakeSets("waiters", 1) :
          /\ pc' = Woken(t, "cs", W)
          /\ h_woken' = WokenBy("notify", W)
    /\ h_notified' = [u \in Threads |->
                        h_notified[u] \/ (u \in InWait /\ Cardinality(InWait) = 1)]
    /\ UNCHANGED shared
    /\ UNCHANGED << site, caller, start_time, now, timeout, temp, current, reg, try_ret, deadline >>
    /\ UNCHANGED << h_owner, h_call_time, h_held, h_winc, h_rounds, h_calls,
                    h_gives_begun, h_takes_done, h_initial, program, monvars >>

\* simple_futex( &waiters, FUTEX_WAKE, INT32_MAX ), called with the lock held.
CondNotifyAll(t) ==
    /\ pc[t] = "cs"
    /\ \E W \in WakeSets("waiters", Int32Max) :
          /\ pc' = Woken(t, "cs", W)
          /\ h_woken' = WokenBy("notify_all", W)
    /\ h_notified' = [u \in Threads |-> h_notified[u] \/ u \in InWait]
    /\ UNCHANGED shared
    /\ UNCHANGED << site, caller, start_time, now, timeout, temp, current, reg, try_ret, deadline >>
    /\ UNCHANGED << h_owner, h_call_time, h_held, h_winc, h_rounds, h_calls,
                    h_gives_begun, h_takes_done, h_initial, program, monvars >>

\* ------------------------------------------------ clients of the Condition
\* A thread that holds the lock calls cond.wait( lock ), at most MaxWaits
\* times, cond.notify() or cond.notify_all(), and ends its round with
\* counter++ and lock.unlock().
CallWait(t) ==
    /\ pc[t] = "cs"
    /\ h_calls[t] < MaxWaits
    /\ pc' = [pc EXCEPT ![t] = "cw_inc"]
    /\ h_calls' = [h_calls EXCEPT ![t] = @ + 1]
    /\ UNCHANGED shared
    /\ UNCHANGED << site, caller, start_time, now, timeout, temp, current, reg, try_ret, deadline >>
    /\ UNCHANGED << h_owner, h_call_time, h_held, h_winc, h_rounds, h_notified, semhist >>

\* One step of Condition::wait by thread t.
CondStep(t) ==
    \/ CondWaitInc(t) \/ CondWaitFutex(t) \/ CondWaitDec(t) \/ CondWaitReturn(t)

CondClient(t) ==
    \/ CallWait(t) \/ CondNotify(t) \/ CondNotifyAll(t)

\* The Lock and the Condition are used.
CondNext ==
    \/ LockNext
    \/ \E t \in Threads : CondStep(t) \/ CondClient(t)

CondInit ==
    /\ Init
    /\ program = "condition"
    /\ value = 0
    /\ sem_spin_time = 0

CondSpec == CondInit /\ [][CondNext]_vars

\* --------------------------------------------- waiters and a notifier
\* The Condition with one thread more: every thread acquires with lock(), the
\* first NumThreads threads may then call wait(), the last one notify() or
\* notify_all(), and each ends its round with counter++ and unlock(); so
\* several threads can be parked in wait() when the notifier calls.  The Lock
\* is built with spin time 0 and no timed call is made: the test
\* time_diff_ns( &now, &start_time ) >= spin_time succeeds whatever the clock
\* reads, so the clock is left at its origin in these runs.
\* One step of Lock::lock or Lock::unlock by thread t.
PlainLockStep(t) ==
    \/ TryLockRead(t) \/ TryLockCAS(t) \/ LockReturn(t)
    \/ LockStart(t) \/ LockNow(t) \/ LockInc(t) \/ LockWait(t) \/ LockDec(t)
    \/ UnlockStore(t) \/ UnlockCheck(t) \/ UnlockWake(t)
    \/ UnlockCheckEarly(t) \/ UnlockDrain(t)

NotifyNext ==
    \/ \E t \in Threads :
          \/ PlainLockStep(t) \/ CallLock(t) \/ CsRead(t) \/ CsWrite(t)
          \/ CondStep(t) \/ FutexInterrupt(t)
          \/ t <= NumThreads /\ CallWait(t)
          \/ t > NumThreads /\ (CondNotify(t) \/ CondNotifyAll(t))

NotifyInit ==
    /\ Init
    /\ program = "notify"
    /\ value = 0
    /\ lock_spin_time = 0
    /\ sem_spin_time = 0

NotifySpec == NotifyInit /\ [][NotifyNext]_vars

\* ================================================================ Monitor
\* Only wait_for is given with its body (a template in the header); lock,
\* tryLock, unlock and silent_unlock are declared there and are modelled from
\* their description: lock/tryLock as the Lock's acquire over monitor_lock and
\* lock_waiters, silent_unlock as the Lock's release, unlock as a scan of the
\* list that hands the monitor to the first node whose predicate is true and
\* releases it when there is none.  The Monitor's spin_time bounds how long
\* lock() keeps trying before it parks; a thread spinning is a thread that has
\* not yet taken its next step, so no clock is needed here.  signal_all() is
\* not called by these clients.

\* Everything a step of the Monitor leaves alone.
monrest == << shared, site, caller, start_time, now, timeout, temp, current, reg,
              try_ret, deadline, h_owner, h_call_time, h_held, h_winc,
              h_gives_begun, h_takes_done, h_notified, h_initial, program >>
notmon == << monrest, h_woken >>

\* The clients wait for the data to take a given value: the predicate
\* [&]{ return flag == k; } is recorded as k, and k = 0 means no predicate.
Predicates == 1 .. MaxFlag

\* it->predicate()
PredicateHolds(k) == flag = k

\* waiters.emplace_back( predicate, 0 ): the new node.  A node is told from
\* the others by the thread that made it and the number of that call.
NewNode(t) == [owner |-> t, call |-> h_calls[t], predicate |-> predicate[t], lock |-> 0]

\* The place of the node of thread t's current call in list l (node_it), or 0.
NodeIndex(l, t) ==
    LET S == {i \in 1 .. Len(l) : l[i].owner = t /\ l[i].call = h_calls[t]}
    IN  IF S = {} THEN 0 ELSE CHOOSE i \in S : TRUE

\* The places of list l whose predicate is true, and the first of them: the
\* node at which a scan from waiters.begin() stops.
Satisfied(l) == {i \in 1 .. Len(l) : PredicateHolds(l[i].predicate)}
FirstSatisfied(l) == CHOOSE i \in Satisfied(l) : \A j \in Satisfied(l) : i <= j

\* waiters.erase( node_it )
Erase(l, i) == [j \in 1 .. Len(l) - 1 |-> IF j < i THEN l[j] ELSE l[j + 1]]

\* The threads parked on the wake flag of the node made by owner in its
\* call-th call of wait_for.
ParkedOnNode(owner, call) ==
    {u \in Threads : pc[u] = "wf_parked" /\ u = owner /\ h_calls[u] = call}

\* The threads a FUTEX_WAKE of one thread on the word of node n releases.
NodeWakeSets(n) ==
    {W \in SUBSET ParkedOnNode(n.owner, n.call) :
        Cardinality(W) = Min(1, Cardinality(ParkedOnNode(n.owner, n.call)))}

\* -------------------------------------------- Monitor::tryLock and lock
\* As Lock::tryLock: the monitor is taken if monitor_lock is 0.
MonitorTryLock(t) ==
    /\ pc[t] = "mt_try"
    /\ IF monitor_lock = 0
       THEN /\ monitor_lock' = 1
            /\ pc' = [pc EXCEPT ![t] = "m_hold"]
       ELSE /\ pc' = [pc EXCEPT ![t] = "idle"]
            /\ UNCHANGED monitor_lock
    /\ UNCHANGED << lock_waiters, mon_waiters, flag, predicate, it, h_rounds, h_calls, notmon >>

\* As Lock::lock: tryLock is repeated while the spin time lasts; a failed try
\* after it leads to the parked wait.
MonitorLockTry(t) ==
    /\ pc[t] = "ml_try"
    /\ IF monitor_lock = 0
       THEN /\ monitor_lock' = 1
            /\ pc' = [pc EXCEPT ![t] = "m_hold"]
       ELSE /\ pc' = [pc EXCEPT ![t] = "ml_inc"]
            /\ UNCHANGED monitor_lock
    /\ UNCHANGED << lock_waiters, mon_waiters, flag, predicate, it, h_rounds, h_calls, notmon >>

\* __sync_add_and_fetch( &lock_waiters, 1 );
MonitorLockInc(t) ==
    /\ pc[t] = "ml_inc"
    /\ lock_waiters' = lock_waiters + 1
    /\ pc' = [pc EXCEPT ![t] = "ml_wait"]
    /\ UNCHANGED << monitor_lock, mon_waiters, flag, predicate, it, h_rounds, h_calls, notmon >>

\* _simple_futex( &monitor_lock, FUTEX_WAIT, 1 ): parks only if the word is 1.
MonitorLockWait(t) ==
    /\ pc[t] = "ml_wait"
    /\ pc' = [pc EXCEPT ![t] = IF monitor_lock = 1 THEN "ml_parked" ELSE "ml_dec"]
    /\ UNCHANGED << monvars, h_rounds, h_calls, notmon >>

\* __sync_sub_and_fetch( &lock_waiters, 1 ); then the loop starts over.
MonitorLockDec(t) ==
    /\ pc[t] = "ml_dec"
    /\ lock_waiters' = lock_waiters - 1
    /\ pc' = [pc EXCEPT ![t] = "ml_try"]
    /\ UNCHANGED << monitor_lock, mon_waiters, flag, predicate, it, h_rounds, h_calls, notmon >>

\* -------------------------------------------------- Monitor::silent_unlock
\* Where silent_unlock returns to: the futex wait of wait_for, or the client.
SilentUnlockReturnPc(t) == IF predicate[t] # 0 THEN "wf_wait" ELSE "idle"

\* As Lock::unlock: monitor_lock = 0; ...
SilentUnlockStore(t) ==
    /\ pc[t] = "su_store"
    /\ monitor_lock' = 0
    /\ pc' = [pc EXCEPT ![t] = "su_check"]
    /\ UNCHANGED << lock_waiters, mon_waiters, flag, predicate, it, h_rounds, h_calls, notmon >>

\* ... if( lock_waiters ) ...
SilentUnlockCheck(t) ==
    /\ pc[t] = "su_check"
    /\ pc' = [pc EXCEPT ![t] = IF lock_waiters # 0 THEN "su_wake" ELSE SilentUnlockReturnPc(t)]
    /\ UNCHANGED << monvars, h_rounds, h_calls, notmon >>

\* ... _simple_futex( &monitor_lock, FUTEX_WAKE, 1 ): a thread parked in lock()
\* is released, no waiter node is touched.
SilentUnlockWake(t) ==
    /\ pc[t] = "su_wake"
    /\ \E W \in WakeSets("monitor_lock", 1) : pc' = Woken(t, SilentUnlockReturnPc(t), W)
    /\ UNCHANGED << monvars, h_rounds, h_calls, notmon >>

\* ------------------------------------------------------ Monitor::wait_for
\* Faulty variant of WaitForScan: a satisfied earlier node is passed over and
\* the caller goes on to its own node.
WaitForScanOwnOnly(t) ==
    /\ pc[t] = "wf_call"
    /\ LET list == Append(mon_waiters, NewNode(t))
       IN  /\ mon_waiters' = list
           /\ IF PredicateHolds(predicate[t])
              THEN /\ pc' = [pc EXCEPT ![t] = "su_store"]
                   /\ UNCHANGED predicate
              ELSE /\ pc' = [pc EXCEPT ![t] = "m_hold"]
                   /\ predicate' = [predicate EXCEPT ![t] = 0]
    /\ UNCHANGED << monitor_lock, lock_waiters, flag, it, h_rounds, h_calls, notmon >>

\* const auto &node = waiters.emplace_back( predicate, 0 ); and the loop over
\* the list from waiters.begin(), run by the thread that holds the monitor.
\* The loop passes the nodes whose predicate is false.  When the false one is
\* the caller's own it returns, leaving the node in the list.  At the first
\* node whose predicate is true it either calls silent_unlock() (the node is
\* the caller's own) or stores 1 to that node's lock; the wake and the
\* caller's futex wait are the next steps.
WaitForScan(t) ==
    /\ pc[t] = "wf_call"
    /\ LET list == Append(mon_waiters, NewNode(t))
       IN  IF Satisfied(list) = {}
           THEN /\ mon_waiters' = list
                /\ pc' = [pc EXCEPT ![t] = "m_hold"]
                /\ predicate' = [predicate EXCEPT ![t] = 0]
                /\ UNCHANGED it
           ELSE IF FirstSatisfied(list) = Len(list)
           THEN /\ mon_waiters' = list
                /\ pc' = [pc EXCEPT ![t] = "su_store"]
                /\ UNCHANGED << predicate, it >>
           ELSE /\ mon_waiters' = [list EXCEPT ![FirstSatisfied(list)].lock = 1]
                /\ it' = [it EXCEPT ![t] = list[FirstSatisfied(list)]]
                /\ pc' = [pc EXCEPT ![t] = "wf_wake"]
                /\ UNCHANGED predicate
    /\ UNCHANGED << monitor_lock, lock_waiters, flag, h_rounds, h_calls, notmon >>

\* _simple_futex( &it->lock, FUTEX_WAKE, 1 );
WaitForWake(t) ==
    /\ pc[t] = "wf_wake"
    /\ \E W \in NodeWakeSets(it[t]) : pc' = Woken(t, "wf_wait", W)
    /\ it' = [it EXCEPT ![t] = NoNode]
    /\ UNCHANGED << monitor_lock, lock_waiters, mon_waiters, flag, predicate, h_rounds, h_calls, notmon >>

\* Faulty variant of WaitForFutex: the caller parks whatever the flag is.
WaitForFutexNoCompare(t) ==
    /\ pc[t] = "wf_wait"
    /\ pc' = [pc EXCEPT ![t] = "wf_parked"]
    /\ UNCHANGED << monvars, h_rounds, h_calls, notmon >>

\* _simple_futex( &node.lock, FUTEX_WAIT, 0 ): parks only if the flag is 0.
WaitForFutex(t) ==
    /\ pc[t] = "wf_wait"
    /\ pc' = [pc EXCEPT ![t] =
                IF mon_waiters[NodeIndex(mon_waiters, t)].lock = 0
                THEN "wf_parked" ELSE "wf_erase"]
    /\ UNCHANGED << monvars, h_rounds, h_calls, notmon >>

\* waiters.erase( node_it ); return;
WaitForErase(t) ==
    /\ pc[t] = "wf_erase"
    /\ mon_waiters' = Erase(mon_waiters, NodeIndex(mon_waiters, t))
    /\ predicate' = [predicate EXCEPT ![t] = 0]
    /\ pc' = [pc EXCEPT ![t] = "m_hold"]
    /\ h_woken' = [h_woken EXCEPT ![t] = NotWoken]
    /\ UNCHANGED << monitor_lock, lock_waiters, flag, it, h_rounds, h_calls, monrest >>

\* ------------------------------------------------------- Monitor::unlock
\* History: the thread inside the wait_for call that made node n was granted
\* by unlock(), and where it was then: parked (1), past the store of its
\* silent_unlock() and not yet parked (0), or elsewhere (2).  A node whose
\* call is over changes nothing.
GrantedByUnlock(n) ==
    IF predicate[n.owner] # 0 /\ n.call = h_calls[n.owner]
    THEN [h_woken EXCEPT ![n.owner] =
             [op |-> "unlock",
              parked |-> IF pc[n.owner] = "wf_parked" THEN 1
                         ELSE IF pc[n.owner] \in {"su_check", "su_wake", "wf_wait"}
                         THEN 0 ELSE 2]]
    ELSE h_woken

\* The predicates are evaluated from the head of the list.  The first node
\* whose predicate is true gets its lock set to 1, the wake follows and the
\* monitor stays taken; when no predicate is true the monitor is released as
\* by silent_unlock().
\* Faulty variant of MonitorUnlockScan: the scan does not stop at the first
\* node whose predicate is true and sets the lock of every such node.
MonitorUnlockScanAll(t) ==
    /\ pc[t] = "mu_scan"
    /\ IF Satisfied(mon_waiters) = {}
       THEN /\ pc' = [pc EXCEPT ![t] = "su_store"]
            /\ UNCHANGED << mon_waiters, it, h_woken >>
       ELSE /\ mon_waiters' = [i \in 1 .. Len(mon_waiters) |->
                                 IF i \in Satisfied(mon_waiters)
                                 THEN [mon_waiters[i] EXCEPT !.lock = 1]
                                 ELSE mon_waiters[i]]
            /\ it' = [it EXCEPT ![t] = mon_waiters[FirstSatisfied(mon_waiters)]]
            /\ h_woken' = GrantedByUnlock(mon_waiters[FirstSatisfied(mon_waiters)])
            /\ pc' = [pc EXCEPT ![t] = "mu_wake"]
    /\ UNCHANGED << monitor_lock, lock_waiters, flag, predicate, h_rounds, h_calls, monrest >>

MonitorUnlockScan(t) ==
    /\ pc[t] = "mu_scan"
    /\ IF Satisfied(mon_waiters) = {}
       THEN /\ pc' = [pc EXCEPT ![t] = "su_store"]
            /\ UNCHANGED << mon_waiters, it, h_woken >>
       ELSE /\ mon_waiters' = [mon_waiters EXCEPT ![FirstSatisfied(mon_waiters)].lock = 1]
            /\ it' = [it EXCEPT ![t] = mon_waiters[FirstSatisfied(mon_waiters)]]
            /\ h_woken' = GrantedByUnlock(mon_waiters[FirstSatisfied(mon_waiters)])
            /\ pc' = [pc EXCEPT ![t] = "mu_wake"]
    /\ UNCHANGED << monitor_lock, lock_waiters, flag, predicate, h_rounds, h_calls, monrest >>

\* The targeted wake: FUTEX_WAKE of one thread on the granted node's lock.
MonitorUnlockWake(t) ==
    /\ pc[t] = "mu_wake"
    /\ \E W \in NodeWakeSets(it[t]) : pc' = Woken(t, "idle", W)
    /\ it' = [it EXCEPT ![t] = NoNode]
    /\ UNCHANGED << monitor_lock, lock_waiters, mon_waiters, flag, predicate, h_rounds, h_calls, notmon >>

\* ------------------------------------------------ clients of the Monitor
\* A thread outside the monitor enters by lock() or tryLock(), at most
\* MaxRounds times.  A thread that holds it changes the data, calls wait_for
\* with one of the predicates (at most MaxCalls times), or leaves by unlock()
\* or silent_unlock().
CallMonitorLock(t) ==
    /\ pc[t] = "idle"
    /\ h_rounds[t] < MaxRounds
    /\ pc' = [pc EXCEPT ![t] = "ml_try"]
    /\ UNCHANGED << monvars, h_rounds, h_calls, notmon >>

CallMonitorTryLock(t) ==
    /\ pc[t] = "idle"
    /\ h_rounds[t] < MaxRounds
    /\ pc' = [pc EXCEPT ![t] = "mt_try"]
    /\ UNCHANGED << monvars, h_rounds, h_calls, notmon >>

SetFlag(t) ==
    /\ pc[t] = "m_hold"
    /\ \E v \in (0 .. MaxFlag) \ {flag} : flag' = v
    /\ UNCHANGED << pc, monitor_lock, lock_waiters, mon_waiters, predicate, it, h_rounds, h_calls, notmon >>

CallWaitFor(t) ==
    /\ pc[t] = "m_hold"
    /\ h_calls[t] < MaxCalls
    /\ \E k \in Predicates : predicate' = [predicate EXCEPT ![t] = k]
    /\ h_calls' = [h_calls EXCEPT ![t] = @ + 1]
    /\ pc' = [pc EXCEPT ![t] = "wf_call"]
    /\ UNCHANGED << monitor_lock, lock_waiters, mon_waiters, flag, it, h_rounds, notmon >>

CallMonitorUnlock(t) ==
    /\ pc[t] = "m_hold"
    /\ h_rounds' = [h_rounds EXCEPT ![t] = @ + 1]
    /\ pc' = [pc EXCEPT ![t] = "mu_scan"]
    /\ UNCHANGED << monvars, h_calls, notmon >>

CallSilentUnlock(t) ==
    /\ pc[t] = "m_hold"
    /\ h_rounds' = [h_rounds EXCEPT ![t] = @ + 1]
    /\ pc' = [pc EXCEPT ![t] = "su_store"]
    /\ UNCHANGED << monvars, h_calls, notmon >>

\* One step of a Monitor operation by thread t.
MonitorStep(t) ==
    \/ MonitorTryLock(t) \/ MonitorLockTry(t) \/ MonitorLockInc(t)
    \/ MonitorLockWait(t) \/ MonitorLockDec(t)
    \/ SilentUnlockStore(t) \/ SilentUnlockCheck(t) \/ SilentUnlockWake(t)
    \/ WaitForScan(t) \/ WaitForWake(t) \/ WaitForFutex(t) \/ WaitForErase(t)
    \/ MonitorUnlockScan(t) \/ MonitorUnlockWake(t)

MonitorClient(t) ==
    \/ CallMonitorLock(t) \/ CallMonitorTryLock(t) \/ SetFlag(t)
    \/ CallWaitFor(t) \/ CallMonitorUnlock(t) \/ CallSilentUnlock(t)

MonitorNext ==
    \E t \in Threads : MonitorStep(t) \/ MonitorClient(t) \/ FutexInterrupt(t)

\* Monitor monitor; the Lock and the Semaphore are not used.
MonitorInit ==
    /\ Init
    /\ program = "monitor"
    /\ lock_spin_time = 0
    /\ value = 0
    /\ sem_spin_time = 0

MonitorSpec == MonitorInit /\ [][MonitorNext]_vars

\* The same threads when no futex wait returns without a wake.
QuietMonitorNext == \E t \in Threads : MonitorStep(t) \/ MonitorClient(t)

QuietMonitorSpec == MonitorInit /\ [][QuietMonitorNext]_vars

\* ------------------------------------------------------------ all programs
\* A run exercises the Lock, the Semaphore, or the Lock with the Condition.
SpecInit == LockInit \/ SemInit \/ CondInit

Next ==
    \/ program = "lock" /\ LockNext
    \/ program = "semaphore" /\ SemNext
    \/ program = "condition" /\ CondNext

Spec == SpecInit /\ [][Next]_vars

\* ------------------------------------------------------------- fairness
\* The scheduler lets every thread that can take a step of the call it is in
\* take it, and time passes.  Nothing obliges a client to start a call.
FairLockSpec ==
    /\ LockSpec
    /\ WF_vars(Tick)
    /\ \A t \in BaseThreads : WF_vars(LockStep(t))

FairSemSpec ==
    /\ SemSpec
    /\ WF_vars(Tick)
    /\ \A t \in BaseThreads : WF_vars(SemStep(t))

\* A thread that holds the lock also ends its critical section unless it
\* calls wait().
FairCondSpec ==
    /\ CondSpec
    /\ WF_vars(Tick)
    /\ \A t \in BaseThreads : WF_vars(LockStep(t) \/ CondStep(t))
    /\ \A t \in BaseThreads : WF_vars(CsRead(t) \/ CsWrite(t))

FairNotifySpec ==
    /\ NotifySpec
    /\ \A t \in MoreThreads : WF_vars(PlainLockStep(t) \/ CondStep(t))
    /\ \A t \in MoreThreads : WF_vars(CsRead(t) \/ CsWrite(t))

\* Every thread inside a Monitor operation goes on; nothing obliges a client
\* to call one.
FairMonitorSpec ==
    /\ MonitorSpec
    /\ \A t \in MoreThreads : WF_vars(MonitorStep(t))

\* =================================================================== Lock
\* The rounds done by the threads of S.
RECURSIVE SumRounds(_)
SumRounds(S) ==
    IF S = {} THEN 0
    ELSE LET t == CHOOSE x \in S : TRUE
         IN  h_rounds[t] + SumRounds(S \ {t})

\* Every thread has done its rounds and is outside all calls.
AllRoundsDone == \A t \in Threads : h_rounds[t] = MaxRounds /\ pc[t] = "idle"

\* C1: at most one thread at a time is between a successful acquire (lock(),
\* lock(timeout) or tryLock() giving it the lock) and its own unlock(); no
\* counter++ done under the lock is lost, so that when each of the NumThreads
\* threads has done its MaxRounds rounds the counter is NumThreads * MaxRounds.
C1_MutualExclusion ==
    /\ Cardinality(h_owner) <= 1
    /\ \A t \in Threads : pc[t] \in {"cs", "cs_write", "u_store"} => h_owner = {t}
    /\ counter = SumRounds(Threads)
    /\ AllRoundsDone => counter = NumThreads * MaxRounds

\* Every thread has done its rounds, and the counter is the product.
C1_Witness == AllRoundsDone /\ counter = NumThreads * MaxRounds /\ counter >= 2

\* The step on which the client's tryLock() of thread t gets its result.
C2_TryLockStep(t) ==
    (site[t] = "try" /\ pc[t] \in {"tl_read", "tl_cas"} /\ pc'[t] = "tl_ret")
        => /\ try_ret'[t] = (lock_value = 0 /\ lock_value' = 1)
           /\ lock_value = 1 => (~try_ret'[t] /\ lock_value' = 1)
           /\ (lock_value = 0 /\ pc[t] = "tl_cas") => try_ret'[t]

\* C2: a client's tryLock() is never at a statement where it could park, and
\* it returns true if and only if that very step changed lock_value from 0 to
\* 1; when lock_value is 1 it returns false and leaves lock_value at 1, and
\* when lock_value is 0 at its read and at its swap it returns true.
C2_TryLock ==
    /\ [](\A t \in Threads : site[t] = "try" => pc[t] \in {"tl_read", "tl_cas", "tl_ret"})
    /\ [][\A t \in Threads : C2_TryLockStep(t)]_vars

\* One tryLock() has returned true and, while that lock is held, another has
\* returned false.
C2_Witness ==
    \E t, u \in Threads :
        /\ pc[t] = "cs" /\ lock_value = 1
        /\ pc[u] = "tl_ret" /\ site[u] = "try" /\ ~try_ret[u]

C4_NoNormalReturn ==
    \A t \in Threads : (pc[t] = "l_ret" /\ Timed(t)) => ~h_held[t]

\* At the throw the other thread still owns the lock.
C4_OwnerKeepsLock ==
    \A t \in Threads :
        (pc[t] \in {"lt_throw", "lt_throw_late"} /\ h_held[t]) =>
            /\ lock_value = 1
            /\ t \notin h_owner
            /\ Cardinality(h_owner) = 1

\* C4: while the lock stays held by another thread from the entry of
\* lock(timeout) on, the call does not return normally, it ends by throwing
\* TimeoutExpiredException, every time it is called, and at the throw the
\* lock is still owned by the other thread.
C4_TimedLockRaises ==
    /\ [](C4_NoNormalReturn /\ C4_OwnerKeepsLock)
    /\ \A t \in BaseThreads :
          h_held[t] ~> (pc[t] \in {"lt_throw", "lt_throw_late"} \/ ~h_held[t])

\* lock(timeout) with a positive timeout throws after busy rounds through the
\* futex call, the lock having been held by another thread all the while.
C4_Witness ==
    \E t \in Threads :
        /\ pc[t] = "lt_throw_late"
        /\ h_held[t]
        /\ timeout[t] > 0
        /\ h_owner # {}

\* The successful decrements of the count: the takes completed and those
\* about to return true.
TakesWon == h_takes_done + Cardinality({u \in Threads : pc[u] \in {"t_ret", "k_ret"} /\ try_ret[u]})

\* C5: when lock(timeout) or take(timeout) throws, the caller does not own
\* the lock, lock_value is 1 only if another thread owns it, the count is
\* what the give() and the successful takes account for, and the caller's
\* increments of the waiter counter are all matched by its decrements.
C5_CleanTimeout ==
    \A t \in Threads :
        pc[t] \in ThrowPcs =>
            /\ t \notin h_owner
            /\ lock_value = (IF h_owner = {} THEN 0 ELSE 1)
            /\ value + TakesWon = h_initial + h_gives_begun
            /\ h_winc[t] = 0
            /\ lock_waiter_count = Cardinality({u \in Threads \ {t} :
                                      pc[u] \in {"l_wait", "l_parked", "l_dec", "lt_wait", "lt_parked", "lt_dec"}})
            /\ sem_waiter_count = Cardinality({u \in Threads \ {t} :
                                      pc[u] \in {"t_wait", "t_parked", "t_dec", "tt_wait", "tt_parked", "tt_dec"}})

\* lock(timeout) throws after it has incremented and decremented waiter_count.
C5_Witness ==
    \E t \in Threads : pc[t] = "lt_throw_late" /\ lock_value = 1 /\ h_winc[t] = 0

\* =============================================================== Semaphore
\* C6 as stated: at every moment the successful take completions are at most
\* the initial value plus the give() calls that have returned.
C6_TakesWithinCompletedGives == h_takes_done <= h_initial + GivesDone

\* C6 as the code has it: at every moment the successful take completions are
\* at most the initial value plus the give() calls that have done their
\* increment of the count, and the count is never negative.
C6_TakesWithinBegunGives ==
    /\ h_takes_done <= h_initial + h_gives_begun
    /\ value + TakesWon = h_initial + h_gives_begun
    /\ value >= 0

\* A take has completed on the unit of a give() that has not returned yet.
C6_Witness ==
    /\ h_initial = 0
    /\ h_takes_done = 1
    /\ h_gives_begun = 1
    /\ GivesDone = 0

\* The steps of the client's tryTake() of thread t.
C7_TryTakeStep(t) ==
    /\ (site[t] = "trytake" /\ pc[t] = "k_read" /\ pc'[t] = "k_ret")
          => (value = 0 /\ value' = 0 /\ ~try_ret'[t])
    /\ (site[t] = "trytake" /\ pc[t] = "k_read" /\ value = 0)
          => (pc'[t] = pc[t] \/ pc'[t] = "k_ret")
    /\ (site[t] = "trytake" /\ pc[t] = "k_cas" /\ pc'[t] = "k_ret")
          => (value > 0 /\ value = temp[t] /\ value' = value - 1 /\ try_ret'[t])
    /\ (site[t] = "trytake" /\ pc[t] = "k_cas" /\ pc'[t] = "k_read")
          => (value # temp[t] /\ value' = value)
    /\ (site[t] = "trytake" /\ pc[t] = "k_cas" /\ value' = value - 1 /\ pc'[t] # pc[t])
          => (pc'[t] = "k_ret" /\ try_ret'[t])

\* C7: a client's tryTake() is never at a statement where it could park; it
\* returns false only on reading a count of 0, which it leaves at 0; it
\* returns true exactly on the step that swaps a count greater than 0 for
\* that count less one; and when the count is no longer the one it read the
\* swap changes nothing and tryTake() reads the count again.
C7_TryTake ==
    /\ [](\A t \in Threads : site[t] = "trytake" => pc[t] \in {"k_read", "k_cas", "k_ret"})
    /\ [][\A t \in Threads : C7_TryTakeStep(t)]_vars

\* One tryTake() has returned true, taking the count to 0, and another one
\* has returned false.
C7_Witness ==
    \E t, u \in Threads :
        /\ pc[t] = "k_ret" /\ site[t] = "trytake" /\ try_ret[t]
        /\ pc[u] = "k_ret" /\ site[u] = "trytake" /\ ~try_ret[u]
        /\ value = 0

\* No thread is mid-operation: each is outside all calls or parked.
Quiescent == \A t \in Threads : pc[t] \in {"idle"} \cup AllParkedPcs

\* At rest a count greater than 0 leaves no thread parked on the count.
C8_NoParkedTakeAtRest ==
    (Quiescent /\ value > 0) => ParkedOn("value") = {}

\* C8: in every state where each thread is outside all calls or parked in a
\* futex wait, a count greater than 0 means no thread is parked in take();
\* and with fair scheduling, if the count eventually stays greater than 0, a
\* thread parked in take() returns from take().
C8_TakeBlocksOnlyAtZero ==
    /\ []C8_NoParkedTakeAtRest
    /\ \A t \in BaseThreads :
          <>[](value > 0) => [](pc[t] = "t_parked" => <>(pc[t] = "t_ret"))

\* A thread is parked in take() and a give() is about to wake it.
C8_Witness ==
    \E t, u \in Threads :
        /\ pc[t] = "t_parked"
        /\ pc[u] = "g_wake"
        /\ value > 0

\* =============================================================== Condition
\* C9: a thread inside wait( lock ) does not own the lock from its unlock()
\* until its lock() has succeeded, in particular not while it is parked, so
\* that another thread can own the lock meanwhile; and when wait() returns
\* the caller is the only owner of the lock.
C9_WaitReleasesAndReacquires ==
    \A t \in Threads :
        /\ pc[t] \in {"cw_wait", "cw_parked", "cw_dec"} => t \notin h_owner
        /\ (pc[t] = "cw_parked" /\ lock_value = 1) => (h_owner # {} /\ t \notin h_owner)
        /\ pc[t] = "cw_ret" => (h_owner = {t} /\ lock_value = 1)

\* wait() returns after another thread has owned the lock and called notify
\* while the caller was inside wait().
C9_Witness ==
    \E t \in Threads : pc[t] = "cw_ret" /\ h_notified[t] /\ h_owner = {t}

\* While one thread is parked in wait(), another one owns the lock.
C9_ParkedWhileOwned ==
    \E t, u \in Threads : pc[t] = "cw_parked" /\ pc[u] = "cs" /\ h_owner = {u}

\* C10: a thread that has entered wait( lock ), incremented waiters and
\* released the lock, and for which another thread holding the lock has then
\* called notify() or notify_all(), returns from wait() without any further
\* notify.
C10_NoLostNotification ==
    \A t \in BaseThreads : h_notified[t] ~> (pc[t] = "cw_ret")

\* The notify came while the waiter had not yet reached the futex wait.
C10_NotifiedBeforeParking ==
    \E t \in Threads : h_notified[t] /\ pc[t] = "cw_wait" /\ waiters = current[t]

\* The threads a step releases from their parked wait on the Condition.
Released == {u \in ParkedOn("waiters") : pc'[u] # pc[u]}

C11_NotifyStep(t) ==
    CondNotify(t) =>
        /\ Cardinality(Released) = (IF ParkedOn("waiters") = {} THEN 0 ELSE 1)
        /\ \A u \in Released : pc'[u] = "cw_dec"
        /\ \A u \in ParkedOn("waiters") \ Released : pc'[u] = "cw_parked"

\* C11: a call of notify() releases exactly one of the threads parked in
\* wait() when there is one, and none otherwise; every other parked thread
\* stays parked.
C11_NotifyReleasesOne == [][\A t \in Threads : C11_NotifyStep(t)]_vars

\* notify() was called with two threads parked: it released one of them, and
\* the other is still parked.
C11_Witness ==
    \E u, v \in Threads :
        /\ u # v
        /\ h_woken[u] = [op |-> "notify", parked |-> 2]
        /\ pc[u] = "cw_dec"
        /\ pc[v] = "cw_parked"
        /\ h_woken[v] = NotWoken

C12_NotifyAllStep(t) ==
    CondNotifyAll(t) =>
        /\ Released = ParkedOn("waiters")
        /\ \A u \in Released : pc'[u] = "cw_dec"

\* C12: a call of notify_all() releases every thread that is parked in wait()
\* when it is made, and under fair scheduling each thread so released gets
\* the lock back and returns from wait().
C12_NotifyAllReleasesAll ==
    /\ [][\A t \in Threads : C12_NotifyAllStep(t)]_vars
    /\ \A t \in MoreThreads : (h_woken[t].op = "notify_all") ~> (pc[t] = "cw_ret")

\* A thread released by notify_all() is parked in the lock.lock() of wait(),
\* the lock is free and no other thread is inside any operation: the unlock()
\* of the last holder read waiter_count before the thread had counted itself.
C12_ReleasedAndStranded ==
    \E t \in Threads :
        /\ h_woken[t].op = "notify_all"
        /\ pc[t] = "l_parked"
        /\ lock_value = 0
        /\ \A u \in Threads \ {t} : pc[u] = "idle"

\* ================================================================ Monitor
\* The states of a thread using the Monitor: Holding (back from lock(), a
\* successful tryLock() or wait_for() and not yet in unlock(), silent_unlock()
\* or wait_for()), inside wait_for with its node in the list, or neither.
Holding == {t \in Threads : pc[t] = "m_hold"}
Waiting == {t \in Threads : predicate[t] # 0 /\ pc[t] # "wf_call"}

\* Thread t returns from wait_for on this step.
WaitForReturns(t) == pc[t] \in {"wf_call", "wf_erase"} /\ pc'[t] = "m_hold"

\* Thread t completes a scan of the list on this step, in wait_for or in
\* unlock, and the list it scans (in wait_for its own new node is the last).
Scans(t) == pc[t] \in {"wf_call", "mu_scan"} /\ pc'[t] # pc[t]
Scanned(t) == IF pc[t] = "wf_call" THEN Append(mon_waiters, NewNode(t)) ELSE mon_waiters

\* The places of the nodes whose lock a step takes from 0 to 1.
Granted(l) == {i \in 1 .. Len(l) : l[i].lock = 0 /\ mon_waiters'[i].lock = 1}

C13_ScanStep(t) ==
    Scans(t) =>
        /\ Len(mon_waiters') = Len(Scanned(t))
        /\ \A i \in Granted(Scanned(t)) : i = FirstSatisfied(Scanned(t))
        /\ Cardinality(Granted(Scanned(t))) <= 1
        /\ WaitForReturns(t) => Satisfied(Scanned(t)) = {}

C14_ReturnStep(t) == WaitForReturns(t) => flag' = predicate[t]

\* C14: whenever a thread returns from wait_for( predicate ), its predicate is
\* true in the state it returns in, whatever lock(), tryLock(), wait_for(),
\* unlock() and silent_unlock() the other threads do.
C14_PredicateTrueAtReturn == [][\A t \in Threads : C14_ReturnStep(t)]_vars

\* A thread is back from wait_for and holds the monitor, its node is in the
\* list, and its predicate is false.
C14_ReturnedWithFalsePredicate ==
    \E t \in Holding :
        /\ NodeIndex(mon_waiters, t) # 0
        /\ ~PredicateHolds(mon_waiters[NodeIndex(mon_waiters, t)].predicate)
        /\ \A u \in Threads \ {t} : pc[u] = "idle" /\ h_rounds[u] = 0

C15_OwnNodeStep(t) ==
    (pc[t] = "wf_call" /\ pc'[t] # "wf_call"
        /\ PredicateHolds(predicate[t]) /\ Satisfied(mon_waiters) = {})
    => (pc'[t] = "m_hold" /\ monitor_lock' = 1)

\* C15: when the holder calls wait_for with a predicate that is true and no
\* earlier node's predicate is true, wait_for returns at once: the monitor is
\* not released, the caller does not park and is still the holder.
C15_ReturnsAtOnce == [][\A t \in Threads : C15_OwnNodeStep(t)]_vars

\* A thread is parked in wait_for on its own node, which is the first of the
\* list with its predicate true and its lock 0, and the monitor is free.
C15_ParkedWithTruePredicate ==
    \E t \in Threads :
        /\ pc[t] = "wf_parked"
        /\ NodeIndex(mon_waiters, t) = 1
        /\ PredicateHolds(predicate[t])
        /\ mon_waiters[1].lock = 0
        /\ monitor_lock = 0

C16_NoneSatisfiedStep(t) ==
    (pc[t] = "wf_call" /\ pc'[t] # "wf_call" /\ Satisfied(Scanned(t)) = {})
    => (pc'[t] = "su_store" /\ Granted(Scanned(t)) = {})

C16_ParkedStep(t) ==
    (pc[t] = "wf_parked" /\ pc'[t] # "wf_parked")
    => mon_waiters[NodeIndex(mon_waiters, t)].lock = 1

\* C16: when no node of the list, the caller's included, has a true predicate,
\* the caller of wait_for releases the monitor through silent_unlock() without
\* setting any node's lock, parks on its own node, and does not leave the
\* parked wait while that node's lock is 0.
C16_ReleasesAndParks ==
    [][\A t \in Threads : C16_NoneSatisfiedStep(t) /\ C16_ParkedStep(t)]_vars

\* No predicate is true, yet a thread is back from wait_for: it holds the
\* monitor, which was never released, and its node with lock 0 is in the list.
C16_BackWithoutParking ==
    \E t \in Holding :
        /\ Satisfied(mon_waiters) = {}
        /\ NodeIndex(mon_waiters, t) # 0
        /\ mon_waiters[NodeIndex(mon_waiters, t)].lock = 0
        /\ monitor_lock = 1
        /\ lock_waiters = 0

\* The nodes that were granted by unlock() and whose threads are not yet
\* back from their wait_for.
HandOffs ==
    {i \in 1 .. Len(mon_waiters) :
        /\ mon_waiters[i].lock = 1
        /\ mon_waiters[i].owner \in Waiting
        /\ mon_waiters[i].call = h_calls[mon_waiters[i].owner]
        /\ h_woken[mon_waiters[i].owner].op = "unlock"}

\* C17: from the unlock() that grants a waiter until that waiter is back from
\* wait_for the word monitor_lock is never 0, so no compare-and-swap of
\* lock() or tryLock() can take the monitor in between.
C17_HandOffKeepsMonitor == HandOffs # {} => monitor_lock = 1

\* unlock() has granted a waiter that is still parked, and the monitor is
\* free with nobody holding it.
C17_FreeDuringHandOff ==
    /\ \E i \in HandOffs : pc[mon_waiters[i].owner] = "wf_parked"
    /\ monitor_lock = 0
    /\ Holding = {}

\* The parked waiters whose predicate is true while no waiter before them in
\* the list has a true predicate.
Starving ==
    {t \in Waiting :
        /\ pc[t] = "wf_parked"
        /\ PredicateHolds(predicate[t])
        /\ \A i \in 1 .. NodeIndex(mon_waiters, t) - 1 :
              (mon_waiters[i].owner \in Waiting
                  /\ mon_waiters[i].call = h_calls[mon_waiters[i].owner])
              => ~PredicateHolds(mon_waiters[i].predicate)}

C18_ScanStep(u) ==
    Scans(u) => \A t \in Starving : mon_waiters'[NodeIndex(mon_waiters, t)].lock = 1

\* C18: a parked waiter whose predicate is true, with no earlier waiter's
\* predicate true, is granted by the next scan a holder completes, and a
\* granted waiter eventually returns from wait_for.
C18_NoStarvation ==
    /\ [][\A u \in Threads : C18_ScanStep(u)]_vars
    /\ \A t \in MoreThreads :
          (t \in Waiting /\ mon_waiters[NodeIndex(mon_waiters, t)].lock = 1)
              ~> (pc[t] = "m_hold")

\* A holder's scan has granted a node whose thread left wait_for long ago,
\* while a parked waiter behind it has a true predicate and lock 0.
C18_GrantToLeftOverNode ==
    /\ Starving # {}
    /\ \E u \in Threads : pc[u] = "mu_wake" /\ it[u].owner \notin Waiting
    /\ \A t \in Starving : mon_waiters[NodeIndex(mon_waiters, t)].lock = 0

\* C19: at most one thread is Holding the monitor, hand-offs to granted
\* waiters and returns of wait_for without a parked wait included.
C19_MonitorMutualExclusion == Cardinality(Holding) <= 1

\* Two threads hold the monitor.
C19_TwoHolders ==
    /\ Cardinality(Holding) = 2
    /\ monitor_lock = 1
    /\ mon_waiters = << >>

\* C20: the list holds exactly the nodes of the threads that are inside
\* wait_for, one each: every return from wait_for leaves the list without the
\* caller's node, and the length of the list is the number of those threads.
C20_WaiterList ==
    /\ \A i \in 1 .. Len(mon_waiters) :
          /\ mon_waiters[i].owner \in Waiting
          /\ mon_waiters[i].call = h_calls[mon_waiters[i].owner]
    /\ Len(mon_waiters) = Cardinality(Waiting)

\* The thread that made the only node of the list has left the monitor.
C20_NodeOutlivesCall ==
    /\ Len(mon_waiters) = 1
    /\ pc[mon_waiters[1].owner] = "idle"
    /\ Waiting = {}
\* The places of list l whose node a step changes.
Touched(l) == {i \in 1 .. Len(l) : mon_waiters'[i] # l[i]}

\* The threads that a step takes out of the parked wait of wait_for.
Roused == {u \in Threads : pc[u] = "wf_parked" /\ pc'[u] # "wf_parked"}

C21_Step(t) ==
    /\ Scans(t) =>
          /\ Cardinality(Touched(Scanned(t))) <= 1
          /\ \A i \in Touched(Scanned(t)) :
                /\ i = FirstSatisfied(Scanned(t))
                /\ mon_waiters'[i] = [Scanned(t)[i] EXCEPT !.lock = 1]
          /\ pc'[t] \in {"wf_wake", "mu_wake"} => Roused = {}
    /\ (pc[t] \in {"wf_wake", "mu_wake"} /\ pc'[t] # pc[t]) =>
          /\ Cardinality(Roused) <= 1
          /\ pc'[t] \notin {"wf_wake", "mu_wake", "wf_call", "mu_scan"}
          /\ mon_waiters' = mon_waiters

\* C21: one execution of wait_for or unlock changes at most one node of the
\* list, the first whose predicate is true, by setting its lock to 1, and its
\* one wake that follows releases at most one thread, however many predicates
\* are true at that time.
C21_OneGrantPerScan == [][\A t \in Threads : C21_Step(t)]_vars

\* Two nodes that were in the list before unlock() has scanned it have true
\* predicates; the scan has set the lock of the first and left the second.
C21_Witness ==
    \E t \in Threads :
        /\ pc[t] = "mu_wake"
        /\ Len(mon_waiters) = 2
        /\ Satisfied(mon_waiters) = {1, 2}
        /\ it[t].owner = mon_waiters[1].owner
        /\ mon_waiters[1].lock = 1
        /\ mon_waiters[2].lock = 0
\* The thread that made node n is inside that call of wait_for, past its own
\* scan and not yet past its futex wait.
LiveWaiter(n) ==
    /\ n.owner \in Waiting
    /\ n.call = h_calls[n.owner]
    /\ pc[n.owner] \in {"su_store", "su_check", "su_wake", "wf_wake", "wf_wait", "wf_parked"}

C22_ScanStep(t) ==
    Scans(t) => \A i \in Granted(Scanned(t)) : LiveWaiter(Scanned(t)[i])

\* The monitor is taken, nobody holds it or is inside one of its operations
\* other than parked, and no granted waiter is on its way.
DeadMonitor ==
    /\ monitor_lock = 1
    /\ Holding = {}
    /\ \A t \in Threads : pc[t] \in {"idle", "wf_parked", "ml_parked"}
    /\ \A i \in 1 .. Len(mon_waiters) :
          mon_waiters[i].lock = 1 => ~LiveWaiter(mon_waiters[i])

\* C22: a scan sets the lock of a node only while the thread that made the
\* node is inside that wait_for, parked or about to park on it; a thread whose
\* node was granted eventually returns from wait_for holding the monitor; and
\* the monitor is never left taken with no holder and no granted waiter.
C22_GrantReachesWaiter ==
    /\ [][\A t \in Threads : C22_ScanStep(t)]_vars
    /\ [](~DeadMonitor)
    /\ \A t \in MoreThreads :
          (t \in Waiting /\ pc[t] = "wf_parked"
              /\ mon_waiters[NodeIndex(mon_waiters, t)].lock = 1) ~> (t \in Holding)

\* The scan of a wait_for has granted the node of a call that is over: the
\* caller is parked behind it and the monitor is taken for good.
C22_GrantToNobody ==
    /\ DeadMonitor
    /\ Len(mon_waiters) = 2
    /\ mon_waiters[1].lock = 1
    /\ pc[mon_waiters[1].owner] = "idle"
    /\ pc[mon_waiters[2].owner] = "wf_parked"
    /\ mon_waiters[2].lock = 0
C23_Step(t) ==
    /\ (pc[t] = "wf_wait" /\ pc'[t] # "wf_wait"
            /\ mon_waiters[NodeIndex(mon_waiters, t)].lock = 1)
       => pc'[t] = "wf_erase"
    /\ (pc[t] = "wf_erase" /\ pc'[t] # "wf_erase")
       => (t \in Holding' /\ NodeIndex(mon_waiters', t) = 0)

\* C23: a thread that reaches the futex wait of wait_for when the lock of its
\* node is already 1 does not park: the wait returns at once, and the thread
\* erases its node and returns from wait_for holding the monitor.
C23_EarlyGrantNotLost == [][\A t \in Threads : C23_Step(t)]_vars

\* A thread was granted by unlock() after the store of its silent_unlock()
\* and before its futex wait; the unlock() is over, and the thread is past the
\* futex wait.
C23_Witness ==
    \E t \in Threads :
        /\ pc[t] = "wf_erase"
        /\ h_woken[t] = [op |-> "unlock", parked |-> 0]
        /\ \A u \in Threads \ {t} : pc[u] = "idle"
\* ============================================================ Lock, again
\* C24: when every thread is outside all calls or parked, a lock word of 0
\* leaves no thread parked in lock(); and under fair scheduling no thread stays
\* parked in lock() for ever while the lock stays free.
C24_NoStrandedWaiter ==
    /\ [](Quiescent /\ lock_value = 0 => ParkedOn("lock_value") = {})
    /\ \A t \in BaseThreads : []<>(~(pc[t] = "l_parked" /\ lock_value = 0))

\* The lock is free, its last owner is back from unlock() and has nothing
\* more to do, and the other thread is parked in lock() and counted.
C24_Stranded ==
    \E t, u \in Threads :
        /\ pc[t] = "l_parked"
        /\ pc[u] = "idle"
        /\ h_rounds[u] = MaxRounds
        /\ lock_value = 0
        /\ lock_waiter_count = 1
        /\ h_owner = {}
\* The threads between their increment and their decrement of a waiter
\* counter: at the futex call, parked, or just out of it.
CountedOnLock == {t \in Threads : pc[t] \in {"l_wait", "l_parked", "l_dec",
                                              "lt_wait", "lt_parked", "lt_dec"}}
CountedOnSem == {t \in Threads : pc[t] \in {"t_wait", "t_parked", "t_dec",
                                             "tt_wait", "tt_parked", "tt_dec"}}

\* unlock() or give() returns on this step without having called FUTEX_WAKE.
UnlockSkipsWake(t) ==
    pc[t] \in {"u_check", "u_drain"} /\ pc'[t] \notin {"u_check", "u_drain", "u_wake"}
GiveSkipsWake(t) == pc[t] = "g_check" /\ pc'[t] \notin {"g_check", "g_wake"}

CountersCoverParked ==
    /\ ParkedOn("lock_value") \subseteq CountedOnLock
    /\ ParkedOn("value") \subseteq CountedOnSem
    /\ lock_waiter_count = Cardinality(CountedOnLock)
    /\ sem_waiter_count = Cardinality(CountedOnSem)
    /\ lock_waiter_count >= Cardinality(ParkedOn("lock_value"))
    /\ sem_waiter_count >= Cardinality(ParkedOn("value"))

C25_Step(t) ==
    /\ UnlockSkipsWake(t) => (lock_value' = 0 => ParkedOn("lock_value")' = {})
    /\ GiveSkipsWake(t) => (value' > 0 => ParkedOn("value")' = {})

\* C25: every thread parked on the word of the Lock or of the Semaphore is
\* counted in its waiter counter, which is the number of threads between
\* their increment and decrement and so never below 0; and an unlock() or
\* give() that returns without a wake leaves no parked thread behind that
\* the word would let go on.
C25_WaiterCounterSound ==
    /\ []CountersCoverParked
    /\ [][\A t \in Threads : C25_Step(t)]_vars

\* unlock() has read waiter_count as 0 and will not wake; its store of 0 is
\* still to come, the counter is 1 by now and the thread it counts is parked.
C25_StaleZero ==
    \E t, u \in Threads :
        /\ pc[t] = "u_drain"
        /\ pc[u] = "l_parked"
        /\ lock_waiter_count = 1
        /\ lock_value = 1
\* ======================================================== Semaphore, again
\* A step that changes the count is the increment of a give() or the
\* successful compare-and-swap of a tryTake(), which takes 1 from a count
\* above 0 and is counted as a successful take.
C26_Step ==
    /\ value' > value => value' = value + 1 /\ h_gives_begun' = h_gives_begun + 1
    /\ value' < value => value > 0 /\ value' = value - 1 /\ TakesWon' = TakesWon + 1
    /\ value' = value => h_gives_begun' = h_gives_begun /\ TakesWon' = TakesWon

C27_GenerationCounter ==
    /\ [][waiters' >= waiters]_vars
    /\ [](\A t, u \in Threads :
            t # u /\ t \in InWait /\ u \in InWait => current[t] # current[u])

\* Two threads are parked in wait() on the same expected value.
C27_SameExpectedValue ==
    \E t, u \in Threads :
        /\ t # u
        /\ pc[t] = "cw_parked" /\ pc[u] = "cw_parked"
        /\ current[t] = current[u]
\* ============================================================ timed waits
\* The step of lock(timeout) or take(timeout) that stores the sleep time into
\* now, on its way to the futex call.
StoresSleepTime(t) ==
    \/ pc[t] = "lt_now" /\ pc'[t] = "lt_inc"
    \/ pc[t] = "tt_now" /\ pc'[t] = "tt_inc"

\* The time since the call read start_time, as the code measures it, and the
\* timeout, both in the unit of time_diff_ns.
Elapsed(t) == time_diff_ns(clock_gettime(clock), start_time[t])

C28_Step(t) ==
    StoresSleepTime(t) =>
        /\ TsNs(now'[t]) = (timeout[t] - Elapsed(t)) * NSecPerUSec
        /\ TsNs(now'[t]) > 0
        /\ TsNs(now'[t]) <= timeout[t] * NSecPerUSec

\* C28: the relative time that lock(timeout) and take(timeout) hand to their
\* futex wait is the timeout minus the time elapsed since the call started,
\* above 0 and at most the timeout.
C28_RemainingTime == [][\A t \in Threads : C28_Step(t)]_vars

\* lock(timeout) is at its futex call with a negative sleep time while the
\* lock is held.
C28_NegativeSleepTime ==
    \E t \in Threads :
        /\ pc[t] = "lt_wait"
        /\ TsNs(now[t]) < 0
        /\ ~TimespecValid(now[t])
        /\ lock_value = 1
\* ============================================================ the Lock word
\* A step that takes the word from 0 to 1 is the compare-and-swap of a
\* tryLock(), a step that takes it from 1 to 0 is the store of an unlock(),
\* and the store of unlock() leaves 0 whatever the word was.
C29_Step ==
    /\ (lock_value = 0 /\ lock_value' = 1)
          => \E t \in Threads : pc[t] = "tl_cas" /\ pc'[t] # "tl_cas"
    /\ (lock_value = 1 /\ lock_value' = 0)
          => \E t \in Threads : pc[t] \in {"u_store", "u_drain"} /\ pc'[t] \notin {"u_store", "u_drain"}
    /\ \A t \in Threads :
          (pc[t] = "u_store" /\ pc'[t] = "u_check") \/ (pc[t] = "u_drain" /\ pc'[t] # "u_drain")
              => lock_value' = 0

\* C29: the word of the Lock is 0 or 1 in every state, also when unlock() is
\* called on a lock that is not locked; it goes from 0 to 1 only by the
\* compare-and-swap of tryLock() and from 1 to 0 only by unlock().
C29_LockWord ==
    /\ [](lock_value \in {0, 1})
    /\ [][C29_Step]_vars

\* unlock() has stored 0 into the word of a lock that no thread ever took.
C29_Witness ==
    \E t \in Threads :
        /\ pc[t] = "u_check"
        /\ lock_value = 0
        /\ h_owner = {}
        /\ \A u \in Threads : h_rounds[u] = 0
        /\ \A u \in Threads \ {t} : pc[u] = "idle" /\ h_calls[u] = 0
====
